---- MODULE Spec2Model ----
(***************************************************************************)
(* Instakand: the token-bucket rate limiter (core/rate-limiter), the proxy *)
(* pool (core/proxy), the session rate limiter (scraper/rate-limiter), the *)
(* browser context map and the job orchestrator (ScraperService).          *)
(*                                                                         *)
(* Time.  The code reads Date.now() and keeps timestamps; it only ever     *)
(* uses differences "Date.now() - stamp".  The model keeps each stamp as   *)
(* its age (Date.now() - stamp), saturated at the largest value the code   *)
(* compares it with, and each pending setTimeout as its remaining time.    *)
(* Time passes in steps of TickMs (at most MaxFineTicks of them) and of    *)
(* LongTickMs.                                                             *)
(***************************************************************************)
EXTENDS Integers, Sequences, FiniteSets, TLC

\* ------------------------------------------------------------------ bounds
NProcs == 2            \* concurrent callers / jobs
TickMs == 20000        \* the short time step
LongTickMs == 1800000  \* the long time step
MaxFineTicks == 6      \* number of short time steps in one behaviour
MaxWarnings == 1       \* reportWarning calls made from outside a job

NKeys == 2             \* distinct host:port pairs
MaxProxies == 3        \* proxy list length (configured plus added)
MaxFailCount == 4      \* markProxyFailed is not called beyond this failCount
requestsPerProxy == 2  \* configuration: proxy.requestsPerProxy

MaxSessTicks == 2      \* short time steps of the session rate limiter
MaxStamps == 4         \* requests recorded by the session rate limiter
MaxErrors == 2         \* reportError calls
MaxBackoffErrors == 5  \* consecutiveErrors read by one calculateDelay call
MaxSessionRequests == 49  \* sessionRequestCount read by one calculateDelay call
MaxStages == 2         \* rate-limited steps of one operation after its first
NSessions == 2         \* distinct sessionid cookie values
AuthTickMs == 30000    \* the time step of the session-id manager's callers
MaxCookies == 2        \* cookies in a session file
MaxAgeDays == 9        \* session file ages are told apart up to this many days
NCodes == 3            \* distinct shortcodes Instagram serves for a hashtag
MaxBatch == 1          \* posts in one page of HTML or one API response
MaxLimit == 2          \* limit of a hashtag scrape
MaxPage == 2            \* page of a hashtag scrape
MaxTagChars == 2       \* characters of a hashtag given to a hashtag scrape
MaxResultLimit == 2   \* resultLimit of a caption search: 1..MaxResultLimit
MaxTerms == 2         \* search terms in the keyword: 1..MaxTerms
MaxResults == 2       \* posts one sub-strategy of the search returns: 0..MaxResults
MaxPostsLimit == 3    \* postsLimit of a profile scrape: 0..MaxPostsLimit
MaxPostsSeen == 3     \* posts a profile page shows in its GraphQL edges or its links
MaxFollowers == 1     \* follower counts a profile source reports: 0..MaxFollowers
MaxCaptured == 2      \* GraphQL responses captured while a profile page loads
MaxExtractLimit == 2  \* limit of a list-returning extraction: 0..MaxExtractLimit
NAuthors == 2         \* distinct comment authors
NTexts == 2           \* distinct comment texts
MaxRaw == 3           \* comment elements of a post page
MaxChars == 3         \* characters of a count string (the examples apart)
MaxUrls == 2          \* urls of a direct-URL scrape: 0..MaxUrls
NJobIds == 2          \* job ids DataService is called with
MaxItems == 1         \* scrapedItems of a stored job: 0..MaxItems
maxRequestsPerSession == 2  \* configuration: rateLimit.maxRequestsPerSession

\* configuration: rateLimit.requestsPerMinute / requestsPerHour
requestsPerMinute == 2
requestsPerHour == 3

\* --------------------------------------------------------- program constants
MinuteMs == 60000
HourMs == 3600000
minDelayMs == 3000
maxDelayMs == 8000
DefaultWaitMs == 1000
MaxWaitMs == 30000
WarningDecayMs == 300000
MaxFailures == 3
RateLimitCooldownMs == 300000   \* 5 * 60 * 1000
AuthCooldownMs == 60000         \* 60 * 1000
MaxHourWaitMs == 300000
MaxBackoffMs == 60000
ExtraWaitMs == 1000
loginCooldownMs == 60000
DayMs == 86400000               \* 1000 * 60 * 60 * 24
SessionMaxAgeDays == 7
PageSize == 50                  \* posts asked for per pagination request
ExtraPages == 3
ScrollThreshold == 15
PostsPerScroll == 5
ExtraScrolls == 10
MaxIdleScrolls == 5
MinLiveScrolls == 25
PostsPerLiveScroll == 10
ExtraLiveScrolls == 5

Procs == 1..NProcs

Min(a, b) == IF a < b THEN a ELSE b
Max(a, b) == IF a > b THEN a ELSE b

\* Date.now() - stamp after d more milliseconds, saturated at cap
Older(age, d, cap) == Min(age + d, cap)
\* remaining time of a pending setTimeout after d more milliseconds
Remaining(rem, d) == Max(rem - d, 0)

VARIABLES
    minuteBucket,         \* [tokens, sinceRefill]: sinceRefill = Date.now() - lastRefill
    hourBucket,
    consecutiveWarnings,
    sinceWarning,         \* Date.now() - lastWarningTime
    rl,                   \* per caller: position inside acquireToken, pending timer
    fineTicks,            \* short time steps taken so far
    warningsReported,     \* reportWarning calls made from outside a job
    sinceFull,            \* history: time since the minute bucket was last filled to capacity
    admitsSinceFull,      \* history: admissions since then (counted up to capacity + 1)
    proxies,              \* ProxyService.proxies: sequence of [key, isActive, failCount]
    currentIndex,
    requestCounts,        \* host:port -> count (0: no entry in the Map)
    lastProxyOp,          \* history: the last ProxyService call, the entry it found or returned
    streak,               \* history, per entry: markProxyFailed calls since the last success/reset
    tripped,              \* history, per entry: the streak reached 3 since the last reset
    failureReported,      \* history, per host:port: markProxyFailed was called for it
    requestTimestamps,    \* sequence of ages: Date.now() - ts, oldest first
    sessionRequestCount,
    consecutiveErrors,
    isInCooldown,
    cooldownLeft,         \* max(cooldownUntil - Date.now(), 0)
    sw,                   \* per caller: position inside waitBeforeRequest, pending timer,
                          \*   and the time since enforceRateLimits read Date.now()
    sessTicks,            \* short time steps taken so far
    since429,             \* history: time since the last reportError(429), saturated at 5 min
    jobs,                 \* DataService.jobs, and where each job's operation stands
    activeContexts,       \* BrowserService.activeContexts: the jobs whose context id is a key
    calls,                \* history, per job: the feedback and cleanup calls its operation made
    credentials,          \* instagram.username and instagram.password are configured
    cachedSessionId,
    sinceLogin,           \* Date.now() - lastLoginAttempt (NeverAttempted: null)
    au,                   \* per caller: position inside getSessionId / refreshSession / login
    challenged,           \* history: a login attempt landed on a 2FA/challenge URL
    reported,             \* history: the status code last passed to reportError
    sessionFile,          \* sessions/<username>_session.json as it is on disk
    contextCookies,       \* number of cookies in the browser context
    loaded,               \* what the last loadSession call returned
    lastLoadOp,           \* history: the last step taken on the session file
    tagJob,               \* the job of one ScraperService.scrapeHashtag call and what it returns
    hs,                   \* HashtagStrategy.scrapeHashtag: its position and local variables
    search,               \* one ScraperService.searchPostsByCaption call: job and locals
    served,               \* history: what the last getNextProxy call returned
    profileJob,           \* one ScraperService.scrapeProfile call: job and locals
    parsed,               \* a count string and what each parseCount made of it
    store,                \* DataService.jobs as the service's own callers see it
    direct,               \* one ScraperService.scrapeDirectUrls call: job, locals, history
    extract,              \* one list-returning extraction: its position and its list
    paced                 \* one calculateDelay call: what it read and drew, its result

rlVars == <<minuteBucket, hourBucket, consecutiveWarnings, sinceWarning, rl,
            fineTicks, warningsReported, sinceFull, admitsSinceFull>>

proxyVars == <<proxies, currentIndex, requestCounts, lastProxyOp, streak, tripped,
               failureReported>>

sessVars == <<requestTimestamps, sessionRequestCount, consecutiveErrors, isInCooldown,
              cooldownLeft, sw, sessTicks, since429>>

jobVars == <<jobs, activeContexts, calls>>

authVars == <<credentials, cachedSessionId, sinceLogin, au, challenged, reported>>

loadVars == <<sessionFile, contextCookies, loaded, lastLoadOp>>

tagVars == <<tagJob, hs>>

searchVars == <<search>>

servedVars == <<served>>

profileVars == <<profileJob>>

parseVars == <<parsed>>

dataVars == <<store>>

directVars == <<direct>>

extractVars == <<extract>>

pacedVars == <<paced>>

vars == <<rlVars, proxyVars, sessVars, jobVars, authVars, loadVars, tagVars, searchVars,
          servedVars, profileVars, parseVars, dataVars, directVars, extractVars, pacedVars>>

\* what each component's own steps leave alone
notRL == <<proxyVars, sessVars, jobVars, authVars, loadVars, tagVars, searchVars, servedVars, profileVars, parseVars, dataVars, directVars, extractVars, pacedVars>>
notProxy == <<rlVars, sessVars, jobVars, authVars, loadVars, tagVars, searchVars,
             profileVars, parseVars, dataVars, directVars, extractVars, pacedVars>>
notSess == <<rlVars, proxyVars, jobVars, authVars, loadVars, tagVars, searchVars, servedVars, profileVars, parseVars, dataVars, directVars, extractVars, pacedVars>>
notJob == <<sessVars, authVars, loadVars, tagVars, searchVars, servedVars, profileVars, parseVars, dataVars, directVars, extractVars, pacedVars>>
notAuth == <<rlVars, proxyVars, jobVars, loadVars, tagVars, searchVars, servedVars, profileVars, parseVars, dataVars, directVars, extractVars, pacedVars>>
notLoad == <<rlVars, proxyVars, sessVars, jobVars, authVars, tagVars, searchVars, servedVars, profileVars, parseVars, dataVars, directVars, extractVars, pacedVars>>
\* what a hashtag scrape leaves alone: the token buckets, the other jobs, the
\* proxy pool (no proxy configured), the session stores
notTag == <<minuteBucket, hourBucket, rl, fineTicks, warningsReported, sinceFull,
            admitsSinceFull, jobs, calls, proxyVars, authVars, loadVars, searchVars,
            servedVars, profileVars, parseVars, dataVars, directVars, extractVars, pacedVars>>
\* what a caption search leaves alone
notSearch == <<minuteBucket, hourBucket, rl, fineTicks, warningsReported, sinceFull,
               admitsSinceFull, jobs, calls, proxyVars, sessVars, authVars, loadVars,
               tagVars, servedVars, profileVars, parseVars, dataVars, directVars, extractVars, pacedVars>>
\* what the later components leave alone
older == <<rlVars, proxyVars, sessVars, jobVars, authVars, loadVars, tagVars, searchVars,
           servedVars>>
notProfile == <<older, parseVars, dataVars, directVars, extractVars, pacedVars>>
notParse == <<older, profileVars, dataVars, directVars, extractVars, pacedVars>>
notData == <<older, profileVars, parseVars, directVars, extractVars, pacedVars>>
notDirect == <<older, profileVars, parseVars, dataVars, extractVars, pacedVars>>
notExtract == <<older, profileVars, parseVars, dataVars, directVars, pacedVars>>
notPaced == <<older, profileVars, parseVars, dataVars, directVars, extractVars>>

\* =========================================================== ProxyService
\* (core/proxy/proxy.service.ts)

Keys == 1..NKeys

\* parseProxyString: a new entry for host:port k
ParsedProxy(k) == [key |-> k, isActive |-> TRUE, failCount |-> 0]

\* this.proxies.find(p => p.host === host && p.port === port): index, 0 if none
Find(k) ==
    IF \E i \in 1..Len(proxies) : proxies[i].key = k
    THEN CHOOSE i \in 1..Len(proxies) :
            /\ proxies[i].key = k
            /\ \A j \in 1..(i - 1) : proxies[j].key # k
    ELSE 0

RECURSIVE ActiveFrom(_)
\* indices (into proxies) of this.proxies.filter(p => p.isActive), from entry i on
ActiveFrom(i) ==
    IF i > Len(proxies) THEN <<>>
    ELSE IF proxies[i].isActive THEN <<i>> \o ActiveFrom(i + 1)
    ELSE ActiveFrom(i + 1)

activeProxies == ActiveFrom(1)

RECURSIVE FirstUnderLimit_AtLimit(_, _)
\* (variant: an endpoint at its limit is still taken)
FirstUnderLimit_AtLimit(active, i) ==
    IF i >= Len(active) THEN -1
    ELSE LET index == (currentIndex + i) % Len(active)
             proxy == proxies[active[index + 1]]
         IN IF requestCounts[proxy.key] <= requestsPerProxy
            THEN index
            ELSE FirstUnderLimit_AtLimit(active, i + 1)

\* position (0-based offset i of the for loop) of the first proxy under its limit
RECURSIVE FirstUnderLimit(_, _)
FirstUnderLimit(active, i) ==
    IF i >= Len(active) THEN -1
    ELSE LET index == (currentIndex + i) % Len(active)
             proxy == proxies[active[index + 1]]
         IN IF requestCounts[proxy.key] < requestsPerProxy
            THEN index
            ELSE FirstUnderLimit(active, i + 1)

NoOp(op) == [op |-> op, idx |-> 0, wasActive |-> FALSE]

getNextProxy ==
    LET active == activeProxies IN
    /\ IF Len(active) = 0
       THEN /\ lastProxyOp' = NoOp("getNextProxy")
            /\ UNCHANGED <<currentIndex, requestCounts>>
       ELSE LET index == FirstUnderLimit(active, 0) IN
            IF index >= 0
            THEN LET p == active[index + 1] IN
                 /\ currentIndex' = (index + 1) % Len(active)
                 /\ requestCounts' = [requestCounts EXCEPT ![proxies[p].key] = @ + 1]
                 /\ lastProxyOp' = [op |-> "getNextProxy", idx |-> p, wasActive |-> TRUE]
            ELSE LET p == active[1] IN
                 /\ requestCounts' = [k \in Keys |-> IF k = proxies[p].key THEN 1 ELSE 0]
                 /\ currentIndex' = 1 % Len(active)
                 /\ lastProxyOp' = [op |-> "getNextProxy", idx |-> p, wasActive |-> TRUE]
    /\ UNCHANGED <<proxies, streak, tripped, failureReported>>

\* (variant: disables only after a fourth failure)
ShouldDisable_Late(failCount) == failCount > MaxFailures

\* if (found.failCount >= 3)
ShouldDisable(failCount) == failCount >= MaxFailures

\* the entry after found.failCount++ and the check that follows it
FailedEntry(e) ==
    LET n == e.failCount + 1
    IN [e EXCEPT !.failCount = n,
                 !.isActive = IF ShouldDisable(n) THEN FALSE ELSE e.isActive]

markProxyFailed(k) ==
    LET i == Find(k) IN
    /\ IF i # 0
       THEN /\ proxies' = [proxies EXCEPT ![i] = FailedEntry(proxies[i])]
            /\ streak' = [streak EXCEPT ![i] = Min(@ + 1, MaxFailures)]
            /\ tripped' = [tripped EXCEPT ![i] = @ \/ streak[i] + 1 >= MaxFailures]
            /\ lastProxyOp' = [op |-> "markProxyFailed", idx |-> i,
                               wasActive |-> proxies[i].isActive]
       ELSE /\ lastProxyOp' = NoOp("markProxyFailed")
            /\ UNCHANGED <<proxies, streak, tripped>>
    /\ failureReported' = [failureReported EXCEPT ![k] = TRUE]
    /\ UNCHANGED <<currentIndex, requestCounts>>

markProxySuccess(k) ==
    LET i == Find(k) IN
    /\ IF i # 0
       THEN /\ proxies' = [proxies EXCEPT ![i].failCount = 0]
            /\ streak' = [streak EXCEPT ![i] = 0]
            /\ lastProxyOp' = [op |-> "markProxySuccess", idx |-> i,
                               wasActive |-> proxies[i].isActive]
       ELSE /\ lastProxyOp' = NoOp("markProxySuccess")
            /\ UNCHANGED <<proxies, streak>>
    /\ UNCHANGED <<currentIndex, requestCounts, tripped, failureReported>>

\* (variant: reactivates without clearing the count)
ResetEntry_KeepCount(e) == [e EXCEPT !.isActive = TRUE]

\* found.isActive = true; found.failCount = 0
ResetEntry(e) == [e EXCEPT !.isActive = TRUE, !.failCount = 0]

resetProxy(k) ==
    LET i == Find(k) IN
    /\ IF i # 0
       THEN /\ proxies' = [proxies EXCEPT ![i] = ResetEntry(proxies[i])]
            /\ streak' = [streak EXCEPT ![i] = 0]
            /\ tripped' = [tripped EXCEPT ![i] = FALSE]
            /\ lastProxyOp' = [op |-> "resetProxy", idx |-> i,
                               wasActive |-> proxies[i].isActive]
       ELSE /\ lastProxyOp' = NoOp("resetProxy")
            /\ UNCHANGED <<proxies, streak, tripped>>
    /\ UNCHANGED <<currentIndex, requestCounts, failureReported>>

\* addProxy of a string that parses to host:port k
addProxy(k) ==
    /\ proxies' = Append(proxies, ParsedProxy(k))
    /\ streak' = Append(streak, 0)
    /\ tripped' = Append(tripped, FALSE)
    /\ lastProxyOp' = [op |-> "addProxy", idx |-> Len(proxies) + 1, wasActive |-> FALSE]
    /\ UNCHANGED <<currentIndex, requestCounts, failureReported>>

\* the pool after loadProxies read the configured list
ProxiesLoaded(list) ==
    /\ proxies = [i \in 1..Len(list) |-> ParsedProxy(list[i])]
    /\ currentIndex = 0
    /\ requestCounts = [k \in Keys |-> 0]
    /\ lastProxyOp = NoOp("loadProxies")
    /\ streak = [i \in 1..Len(list) |-> 0]
    /\ tripped = [i \in 1..Len(list) |-> FALSE]
    /\ failureReported = [k \in Keys |-> FALSE]

InitProxyNone == ProxiesLoaded(<<>>)

\* the endpoints that are active and below their request budget
Budgeted == {i \in 1..Len(proxies) :
                proxies[i].isActive /\ requestCounts[proxies[i].key] < requestsPerProxy}

\* idx: the endpoint the last getNextProxy call returned (0: none yet, or
\* null); choice: whether at least two endpoints have been active and below
\* their budget ever since
NothingServed == [idx |-> 0, choice |-> FALSE]

InitServed == served = NothingServed

\* the history after a getNextProxy call, and after any other call
Served == served' = [idx |-> lastProxyOp'.idx, choice |-> Cardinality(Budgeted') >= 2]

StillServed == served' = [served EXCEPT !.choice = @ /\ Cardinality(Budgeted') >= 2]

\* ===================================================== RateLimiterService
\* (scraper/rate-limiter.service.ts, the session rate limiter; in
\* src/src/scraper/scraper.controller.ts from line 169 on)

Caller(pc, rem, stale) == [pc |-> pc, rem |-> rem, stale |-> stale]

RECURSIVE Pow(_, _)
Pow(b, n) == IF n = 0 THEN 1 ELSE b * Pow(b, n - 1)

\* calculateDelay for the random base delay and the random variance
\* (u hundredths of the +-10% band) it drew
calculateDelay(base, u, count, errors) ==
    LET a == IF count > 20 THEN 1 ELSE 0          \* delay *= 1.2
        b == IF count > 40 THEN 1 ELSE 0          \* delay *= 1.5
        num == base * Pow(6, a) * Pow(3, b) * Pow(2, errors)
        den == Pow(5, a) * Pow(2, b)
        capped == errors > 0 /\ num > MaxBackoffMs * den
        n == IF capped THEN MaxBackoffMs ELSE num
        d == IF capped THEN 1 ELSE den
    IN (n * (1000 + u)) \div (d * 1000)

\* one calculateDelay call by itself: the counters it reads, the base delay
\* and the variance it draws
NoPaced ==
    [pc |-> "idle", base |-> 0, u |-> 0, sessionRequestCount |-> 0,
     consecutiveErrors |-> 0, delay |-> 0]

\* minDelayMs + Math.random() * (maxDelayMs - minDelayMs), to the millisecond
BaseDelays == {minDelayMs, (minDelayMs + maxDelayMs) \div 2, maxDelayMs - 1}

\* (Math.random() - 0.5) * 2, in hundredths: from -1 up to but not 1
Variances == {-100, -50, 0, 1, 50, 99}

\* sessionRequestCount around the two thresholds
RequestCounts == {0, 20, 21, 40, 41, MaxSessionRequests}

PacedInputs ==
    {[NoPaced EXCEPT !.pc = "called", !.base = base, !.u = u,
                     !.sessionRequestCount = count, !.consecutiveErrors = errors] :
        base \in BaseDelays, u \in Variances, count \in RequestCounts,
        errors \in 0..MaxBackoffErrors}

CalculateDelay ==
    /\ paced.pc = "called"
    /\ paced' = [paced EXCEPT
                   !.pc = "returned",
                   !.delay = calculateDelay(paced.base, paced.u,
                                            paced.sessionRequestCount,
                                            paced.consecutiveErrors)]

InitPacedIdle == paced = NoPaced

\* requestTimestamps.filter(ts => now - ts < window)
RECURSIVE Younger(_, _)
Younger(stamps, window) ==
    IF stamps = <<>> THEN <<>>
    ELSE IF Head(stamps) < window
         THEN <<Head(stamps)>> \o Younger(Tail(stamps), window)
         ELSE Younger(Tail(stamps), window)

\* the session-limit check of enforceRateLimits (resetSession), then the
\* human-like delay of waitBeforeRequest: await this.sleep(delay)
SessionCheckAndPace(c) ==
    LET count == IF sessionRequestCount >= maxRequestsPerSession
                 THEN 0 ELSE sessionRequestCount
    IN /\ sessionRequestCount' = count
       /\ \E draw \in {<<minDelayMs, -100>>, <<maxDelayMs, 99>>} :   \* shortest, longest
             sw' = [sw EXCEPT ![c] =
                      Caller("pacing",
                             calculateDelay(draw[1], draw[2], count, consecutiveErrors), 0)]

\* the per-hour check of enforceRateLimits; stale is the time since it read now
HourCheck(c, stamps, stale) ==
    IF Len(stamps) >= requestsPerHour
    THEN LET waitTime == HourMs - (stamps[1] - stale) + ExtraWaitMs
         IN /\ sw' = [sw EXCEPT ![c] = Caller("hourWait", Max(0, Min(waitTime, MaxHourWaitMs)), 0)]
            /\ UNCHANGED sessionRequestCount
    ELSE SessionCheckAndPace(c)

\* enforceRateLimits up to its first await
enforceRateLimits(c) ==
    LET stamps == Younger(requestTimestamps, HourMs)
        lastMinute == Younger(stamps, MinuteMs)
    IN /\ requestTimestamps' = stamps
       /\ IF Len(lastMinute) >= requestsPerMinute
          THEN LET waitTime == IF Len(lastMinute) > 0
                               THEN MinuteMs - lastMinute[1] + ExtraWaitMs
                               ELSE MinuteMs
               IN /\ sw' = [sw EXCEPT ![c] = Caller("minuteWait", waitTime, 0)]
                  /\ UNCHANGED sessionRequestCount
          ELSE HourCheck(c, stamps, 0)

\* calls in flight that will still record a request
InFlight == Cardinality({c \in Procs : sw[c].pc # "idle"})

\* waitBeforeRequest up to its first await
WaitCall(c) ==
    /\ sw[c].pc = "idle"
    /\ Len(requestTimestamps) + InFlight < MaxStamps
    /\ IF isInCooldown /\ cooldownLeft > 0
       THEN /\ sw' = [sw EXCEPT ![c] = Caller("cooling", cooldownLeft, 0)]
            /\ UNCHANGED <<requestTimestamps, sessionRequestCount>>
       ELSE enforceRateLimits(c)
    /\ UNCHANGED <<consecutiveErrors, isInCooldown, cooldownLeft, sessTicks, since429>>

\* the cooldown sleep is over: this.isInCooldown = false, then enforceRateLimits
WaitCooldownOver(c) ==
    /\ sw[c].pc = "cooling"
    /\ sw[c].rem = 0
    /\ isInCooldown' = FALSE
    /\ enforceRateLimits(c)
    /\ UNCHANGED <<consecutiveErrors, cooldownLeft, sessTicks, since429>>

\* the per-minute sleep of enforceRateLimits is over
WaitMinuteOver(c) ==
    /\ sw[c].pc = "minuteWait"
    /\ sw[c].rem = 0
    /\ HourCheck(c, requestTimestamps, sw[c].stale)
    /\ UNCHANGED <<requestTimestamps, consecutiveErrors, isInCooldown, cooldownLeft,
                   sessTicks, since429>>

\* the per-hour sleep of enforceRateLimits is over
WaitHourOver(c) ==
    /\ sw[c].pc = "hourWait"
    /\ sw[c].rem = 0
    /\ SessionCheckAndPace(c)
    /\ UNCHANGED <<requestTimestamps, consecutiveErrors, isInCooldown, cooldownLeft,
                   sessTicks, since429>>

\* the human-like delay is over: recordRequest, and waitBeforeRequest resolves
WaitRecord(c) ==
    /\ sw[c].pc = "pacing"
    /\ sw[c].rem = 0
    /\ requestTimestamps' = Append(requestTimestamps, 0)
    /\ sessionRequestCount' = sessionRequestCount + 1
    /\ sw' = [sw EXCEPT ![c] = Caller("idle", 0, 0)]
    /\ UNCHANGED <<consecutiveErrors, isInCooldown, cooldownLeft, sessTicks, since429>>

\* the session rate limiter's reportSuccess
SessReportSuccess ==
    /\ consecutiveErrors' = 0
    /\ UNCHANGED <<requestTimestamps, sessionRequestCount, isInCooldown, cooldownLeft,
                   sw, sessTicks, since429>>

\* triggerCooldown(durationMs)
triggerCooldown(durationMs) ==
    /\ isInCooldown' = TRUE
    /\ cooldownLeft' = durationMs

StatusCodes == {429, 401, 403, 500}

reportError(statusCode) ==
    /\ consecutiveErrors < MaxErrors
    /\ consecutiveErrors' = consecutiveErrors + 1
    /\ IF statusCode = 429
       THEN triggerCooldown(RateLimitCooldownMs)
       ELSE IF statusCode = 401 \/ statusCode = 403
            THEN triggerCooldown(AuthCooldownMs)
            ELSE UNCHANGED <<isInCooldown, cooldownLeft>>
    /\ since429' = IF statusCode = 429 THEN 0 ELSE since429
    /\ UNCHANGED <<requestTimestamps, sessionRequestCount, sw, sessTicks>>

\* d milliseconds pass for the session rate limiter
SessAdvance(d) ==
    /\ requestTimestamps' = [i \in 1..Len(requestTimestamps) |->
                                Older(requestTimestamps[i], d, HourMs)]
    /\ cooldownLeft' = Remaining(cooldownLeft, d)
    /\ since429' = Older(since429, d, RateLimitCooldownMs)
    /\ sw' = [c \in Procs |->
                IF sw[c].pc = "idle" THEN sw[c]
                ELSE Caller(sw[c].pc, Remaining(sw[c].rem, d),
                            IF sw[c].pc = "minuteWait"
                            THEN Older(sw[c].stale, d, HourMs) ELSE 0)]
    /\ UNCHANGED <<sessionRequestCount, consecutiveErrors, isInCooldown>>

InitSessIdle ==
    /\ requestTimestamps = <<>>
    /\ sessionRequestCount = 0
    /\ consecutiveErrors = 0
    /\ isInCooldown = FALSE
    /\ cooldownLeft = 0
    /\ sw = [c \in Procs |-> Caller("idle", 0, 0)]
    /\ sessTicks = 0
    /\ since429 = RateLimitCooldownMs      \* no 429 reported yet

\* ===================================================== RateLimiterService
\* (core/rate-limiter/rate-limiter.service.ts)

Bucket(t, s) == [tokens |-> t, sinceRefill |-> s]

\* (variant: rounds the partial refill up)
TokensToAdd_RoundedUp(elapsed, capacity, window) ==
    (elapsed * capacity + window - 1) \div window

\* Math.floor((elapsed / window) * capacity)
TokensToAdd(elapsed, capacity, window) == (elapsed * capacity) \div window

\* (variant: the buckets are never refilled)
RefillBucket_Never(b, capacity, window) == b

\* one bucket's part of refillBuckets
RefillBucket(b, capacity, window) ==
    IF b.sinceRefill >= window
    THEN Bucket(capacity, 0)
    ELSE LET tokensToAdd == TokensToAdd(b.sinceRefill, capacity, window)
         IN IF tokensToAdd > 0
            THEN Bucket(Min(capacity, b.tokens + tokensToAdd), 0)
            ELSE b

\* (variant: the loop only waits below zero)
OutOfTokens_BelowZero(mb, hb) == mb.tokens < 0 \/ hb.tokens < 0

\* the loop condition of acquireToken
OutOfTokens(mb, hb) == mb.tokens <= 0 \/ hb.tokens <= 0

\* this.minuteBucket.tokens--; this.hourBucket.tokens--
Consume(b) == [b EXCEPT !.tokens = b.tokens - 1]

getWaitTime(mb, hb) ==
    LET w0 == DefaultWaitMs
        w1 == IF mb.tokens <= 0
              THEN Max(w0, (MinuteMs - mb.sinceRefill) \div requestsPerMinute)
              ELSE w0
        w2 == IF hb.tokens <= 0
              THEN Max(w1, (HourMs - hb.sinceRefill) \div requestsPerHour)
              ELSE w1
    IN Min(w2, MaxWaitMs)

\* getAdaptiveDelay's result for the random base delay it drew
AdaptiveDelay(baseDelay, warnings) ==
    IF warnings > 0
    THEN (baseDelay * Min(2 + warnings, 6)) \div 2   \* floor(base * min(1 + w * 0.5, 3))
    ELSE baseDelay

\* (variant: the decay does not look at the age of the last warning)
DecayedWarnings_Always(warnings, age) == Max(0, warnings - 1)

\* getAdaptiveDelay's decay of the warning counter
DecayedWarnings(warnings, age) ==
    IF age > WarningDecayMs THEN Max(0, warnings - 1) ELSE warnings

\* history kept beside refillBuckets: a refill that leaves the minute bucket
\* at capacity with lastRefill = now starts a full window
FullWindow(old, new) == new.sinceRefill = 0 /\ new.tokens = requestsPerMinute /\ new # old

refillBuckets ==
    LET mb == RefillBucket(minuteBucket, requestsPerMinute, MinuteMs)
        hb == RefillBucket(hourBucket, requestsPerHour, HourMs)
    IN /\ minuteBucket' = mb
       /\ hourBucket' = hb
       /\ IF FullWindow(minuteBucket, mb)
          THEN sinceFull' = 0 /\ admitsSinceFull' = 0
          ELSE UNCHANGED <<sinceFull, admitsSinceFull>>

\* acquireToken, up to its first await: await this.refillBuckets()
AcquireCall(c) ==
    /\ rl[c].pc = "idle"
    /\ refillBuckets
    /\ rl' = [rl EXCEPT ![c] = [pc |-> "check", rem |-> 0]]
    /\ UNCHANGED <<consecutiveWarnings, sinceWarning, fineTicks, warningsReported>>

\* the loop body: no token, so await delay(getWaitTime())
AcquireBlocked(c) ==
    /\ rl[c].pc = "check"
    /\ OutOfTokens(minuteBucket, hourBucket)
    /\ rl' = [rl EXCEPT ![c] = [pc |-> "waiting", rem |-> getWaitTime(minuteBucket, hourBucket)]]
    /\ UNCHANGED <<minuteBucket, hourBucket, consecutiveWarnings, sinceWarning,
                   fineTicks, warningsReported, sinceFull, admitsSinceFull>>

\* the timer of the loop body fired: await this.refillBuckets()
AcquireWake(c) ==
    /\ rl[c].pc = "waiting"
    /\ rl[c].rem = 0
    /\ refillBuckets
    /\ rl' = [rl EXCEPT ![c] = [pc |-> "check", rem |-> 0]]
    /\ UNCHANGED <<consecutiveWarnings, sinceWarning, fineTicks, warningsReported>>

\* the loop exits: consume one token of each bucket, then the adaptive delay
AcquireAdmit(c) ==
    /\ rl[c].pc = "check"
    /\ ~OutOfTokens(minuteBucket, hourBucket)
    /\ minuteBucket' = Consume(minuteBucket)
    /\ hourBucket' = Consume(hourBucket)
    /\ \E baseDelay \in {minDelayMs, maxDelayMs} :
          rl' = [rl EXCEPT ![c] = [pc |-> "pacing",
                                   rem |-> AdaptiveDelay(baseDelay, consecutiveWarnings)]]
    /\ consecutiveWarnings' = DecayedWarnings(consecutiveWarnings, sinceWarning)
    /\ admitsSinceFull' = Min(admitsSinceFull + 1, requestsPerMinute + 1)
    /\ UNCHANGED <<sinceWarning, fineTicks, warningsReported, sinceFull>>

\* the adaptive delay is over: acquireToken resolves
AcquireReturn(c) ==
    /\ rl[c].pc = "pacing"
    /\ rl[c].rem = 0
    /\ rl' = [rl EXCEPT ![c] = [pc |-> "idle", rem |-> 0]]
    /\ UNCHANGED <<minuteBucket, hourBucket, consecutiveWarnings, sinceWarning,
                   fineTicks, warningsReported, sinceFull, admitsSinceFull>>

reportWarning ==
    /\ consecutiveWarnings' = consecutiveWarnings + 1
    /\ sinceWarning' = 0

\* reportSuccess: Math.random() > 0.7 is either outcome
reportSuccess ==
    \/ consecutiveWarnings > 0 /\ consecutiveWarnings' = consecutiveWarnings - 1
    \/ consecutiveWarnings' = consecutiveWarnings

\* reset()
RLReset ==
    /\ minuteBucket' = Bucket(requestsPerMinute, 0)
    /\ hourBucket' = Bucket(requestsPerHour, 0)
    /\ consecutiveWarnings' = 0
    /\ sinceFull' = 0
    /\ admitsSinceFull' = 0
    /\ UNCHANGED <<sinceWarning, rl, fineTicks, warningsReported>>

\* d milliseconds pass for the rate limiter
RLAdvance(d) ==
    /\ minuteBucket' = [minuteBucket EXCEPT !.sinceRefill = Older(@, d, MinuteMs)]
    /\ hourBucket' = [hourBucket EXCEPT !.sinceRefill = Older(@, d, HourMs)]
    /\ sinceWarning' = Older(sinceWarning, d, WarningDecayMs + 1)
    /\ sinceFull' = Older(sinceFull, d, MinuteMs)
    /\ rl' = [c \in Procs |-> [rl[c] EXCEPT !.rem = Remaining(@, d)]]
    /\ UNCHANGED <<consecutiveWarnings, warningsReported, admitsSinceFull>>

InitRLIdle ==
    /\ minuteBucket = Bucket(requestsPerMinute, 0)
    /\ hourBucket = Bucket(requestsPerHour, 0)
    /\ consecutiveWarnings = 0
    /\ sinceWarning = WarningDecayMs + 1       \* lastWarningTime = 0
    /\ rl = [c \in Procs |-> [pc |-> "idle", rem |-> 0]]
    /\ fineTicks = 0
    /\ warningsReported = 0
    /\ sinceFull = 0
    /\ admitsSinceFull = 0

\* ========================================================= ScraperService
\* (scraper/scraper.service.ts, with DataService and BrowserService)

Types == {"profile", "hashtag", "post", "comments", "reels", "search", "direct_urls"}

Terminal == {"completed", "failed"}

\* scrapeDirectUrls alone takes no token before it creates its context
HasFirstToken(type) == type # "direct_urls"

\* the call right after createPage, outside any loop: the first strategy call,
\* for the search ensureLoggedIn; scrapeDirectUrls goes straight to its loop
HasFirstStage(type) == type # "direct_urls"

\* the loops of searchPostsByCaption and scrapeDirectUrls wrap each strategy
\* call in a try/catch of their own
Guarded(type) == type \in {"search", "direct_urls"}

\* how many rate-limited steps (acquireToken, then a strategy call) the
\* operation can take after its first strategy call
Stages(type) ==
    IF type \in {"hashtag", "comments"} THEN 0
    ELSE IF type \in {"profile", "post"} THEN 1
    ELSE MaxStages

NoJob == [type |-> "none", status |-> "none", error |-> "none", pc |-> "idle",
          proxy |-> 0, stages |-> 0]

NoCalls == [reportSuccess |-> 0, reportWarning |-> 0, markProxySuccess |-> 0,
            closeContext |-> 0, thrown |-> "none"]

\* dataService.createJob({ type, status: 'processing', ... })
createJob(type) == [NoJob EXCEPT !.type = type, !.status = "processing"]

\* (variant: the catch block records the error and leaves the status)
FailedUpdate_KeepsStatus(job, message) == [job EXCEPT !.error = message]

\* (variant: the catch block records a fixed message)
FailedUpdate_FixedMessage(job, message) ==
    [job EXCEPT !.status = "failed", !.error = "Scrape failed"]

\* updateJob(jobId, { status: 'failed', error: error.message, ... })
FailedUpdate(job, message) == [job EXCEPT !.status = "failed", !.error = message]

\* updateJob(jobId, { status: 'completed', ... })
CompletedUpdate(job) == [job EXCEPT !.status = "completed"]

\* the proxy getNextProxy returned in this step: its host:port, 0 for null
ReturnedProxy == IF lastProxyOp'.idx = 0 THEN 0 ELSE proxies[lastProxyOp'.idx].key

\* finally { await closeContext(contextId) }, up to closeContext's await:
\* with no context under the id it resolves at once and the operation returns
AfterFinally(j) == IF j \in activeContexts THEN "closing" ELSE "returned"

\* the operation starts: createJob, then the first call of its try block
StartJob(j) ==
    \E type \in Types :
        /\ jobs[j].pc = "idle"
        /\ IF HasFirstToken(type)
           THEN /\ AcquireCall(j)
                /\ jobs' = [jobs EXCEPT ![j] = [createJob(type) EXCEPT !.pc = "firstToken"]]
                /\ UNCHANGED proxyVars
           ELSE /\ getNextProxy
                /\ jobs' = [jobs EXCEPT ![j] = [createJob(type) EXCEPT
                                                  !.pc = "createContext",
                                                  !.proxy = ReturnedProxy]]
                /\ UNCHANGED rlVars
        /\ UNCHANGED <<activeContexts, calls>>

\* acquireToken resolved: the first one is followed by getNextProxy and the
\* call of createContext, a later one by the strategy call
TokenGranted(j) ==
    /\ AcquireReturn(j)
    /\ IF jobs[j].pc = "firstToken"
       THEN /\ getNextProxy
            /\ jobs' = [jobs EXCEPT ![j].pc = "createContext", ![j].proxy = ReturnedProxy]
       ELSE /\ jobs' = [jobs EXCEPT ![j].pc = "strategy"]
            /\ UNCHANGED proxyVars
    /\ UNCHANGED <<activeContexts, calls>>

\* catch (error) { reportWarning(); updateJob(failed, error.message) }
\* finally { closeContext(contextId) }
Caught(j, message) ==
    /\ reportWarning
    /\ jobs' = [jobs EXCEPT ![j] = [FailedUpdate(@, message) EXCEPT !.pc = AfterFinally(j)]]
    /\ calls' = [calls EXCEPT ![j] = [@ EXCEPT !.reportWarning = @ + 1,
                                               !.closeContext = @ + 1,
                                               !.thrown = message]]
    /\ UNCHANGED <<minuteBucket, hourBucket, rl, fineTicks, warningsReported,
                   sinceFull, admitsSinceFull, proxyVars, activeContexts>>

\* reportSuccess(); if (proxy) markProxySuccess(proxy); updateJob(completed)
\* finally { closeContext(contextId) }
Succeeded(j) ==
    /\ reportSuccess
    /\ IF jobs[j].proxy # 0
       THEN markProxySuccess(jobs[j].proxy)
       ELSE UNCHANGED proxyVars
    /\ jobs' = [jobs EXCEPT ![j] = [CompletedUpdate(@) EXCEPT !.pc = AfterFinally(j)]]
    /\ calls' = [calls EXCEPT ![j] = [@ EXCEPT
                    !.reportSuccess = @ + 1,
                    !.markProxySuccess = IF jobs[j].proxy # 0 THEN @ + 1 ELSE @,
                    !.closeContext = @ + 1]]
    /\ UNCHANGED <<minuteBucket, hourBucket, sinceWarning, rl, fineTicks,
                   warningsReported, sinceFull, admitsSinceFull, activeContexts>>

\* what the data scraped so far asks for: one more rate-limited step, or
\* none, and the try block runs to its end
Continue(j) ==
    \/ /\ jobs[j].stages < Stages(jobs[j].type)
       /\ AcquireCall(j)
       /\ jobs' = [jobs EXCEPT ![j].stages = @ + 1, ![j].pc = "token"]
       /\ UNCHANGED <<proxyVars, activeContexts, calls>>
    \/ Succeeded(j)

\* browserService.createContext: the id enters the map only after newContext
\* and addAntiDetectionScripts went through
CreateContext(j) ==
    /\ jobs[j].pc = "createContext"
    /\ \/ /\ activeContexts' = activeContexts \cup {j}
          /\ jobs' = [jobs EXCEPT ![j].pc = "createPage"]
          /\ UNCHANGED <<rlVars, proxyVars, calls>>
       \/ Caught(j, "createContext failed")

\* browserService.createPage
CreatePage(j) ==
    /\ jobs[j].pc = "createPage"
    /\ IF j \notin activeContexts
       THEN Caught(j, "Context not found")
       ELSE \/ IF HasFirstStage(jobs[j].type)
               THEN /\ jobs' = [jobs EXCEPT ![j].pc = "strategy"]
                    /\ UNCHANGED <<rlVars, proxyVars, activeContexts, calls>>
               ELSE Continue(j)
            \/ Caught(j, "createPage failed")

\* a strategy call (or ensureLoggedIn) returns or throws
Strategy(j) ==
    /\ jobs[j].pc = "strategy"
    /\ \/ Continue(j)
       \/ IF jobs[j].stages > 0 /\ Guarded(jobs[j].type)
          THEN Continue(j)                        \* the loop's own catch logs it
          ELSE Caught(j, "strategy failed")

\* closeContext after its await: context.close() resolved, or it rejected and
\* the delete is skipped
CloseDone(j) ==
    /\ jobs[j].pc = "closing"
    /\ \/ /\ activeContexts' = activeContexts \ {j}
          /\ jobs' = [jobs EXCEPT ![j].pc = "returned"]
       \/ /\ jobs' = [jobs EXCEPT ![j].pc = "rejected"]
          /\ UNCHANGED activeContexts
    /\ UNCHANGED <<rlVars, proxyVars, calls>>

InitJobsIdle ==
    /\ jobs = [j \in Procs |-> NoJob]
    /\ activeContexts = {}
    /\ calls = [j \in Procs |-> NoCalls]

\* ============================================================ AuthService
\* (scraper/auth.service.ts, the session-id manager; src/unnamed/part_001)

NoSession == 0             \* cachedSessionId = null
NeverAttempted == -1       \* lastLoginAttempt = null
Sessions == 1..NSessions   \* values of the sessionid cookie

AuthCall(pc, op, how, ret) == [pc |-> pc, op |-> op, how |-> how, ret |-> ret]
AuthIdle == AuthCall("idle", "none", "none", NoSession)

\* (variant: the cooldown lasts half as long)
InLoginCooldown_HalfMinute(since) ==
    since # NeverAttempted /\ since * 2 < loginCooldownMs

\* login's cooldown check
InLoginCooldown(since) == since # NeverAttempted /\ since < loginCooldownMs

\* what login returns while the cooldown is active: this.cachedSessionId
CooldownResult(cached) == cached

\* login(), called by operation op of caller c when this.cachedSessionId is
\* cached, up to its first await; pc "attempt": the attempt is under way
\* (browser context auth_login_<now>), pc "resolved": the promise is settled
login(c, op, cached) ==
    IF ~credentials
    THEN /\ au' = [au EXCEPT ![c] = AuthCall("resolved", op, "noCredentials", NoSession)]
         /\ UNCHANGED sinceLogin
    ELSE IF InLoginCooldown(sinceLogin)
         THEN /\ au' = [au EXCEPT ![c] =
                           AuthCall("resolved", op, "cooldown", CooldownResult(cached))]
              /\ UNCHANGED sinceLogin
         ELSE /\ sinceLogin' = 0
              /\ au' = [au EXCEPT ![c] = AuthCall("attempt", op, "attempt", NoSession)]

LoginCall(c) ==
    /\ au[c].pc = "idle"
    /\ login(c, "login", cachedSessionId)
    /\ UNCHANGED <<credentials, cachedSessionId, challenged, reported>>

getSessionId(c) ==
    /\ au[c].pc = "idle"
    /\ IF cachedSessionId # NoSession
       THEN /\ au' = [au EXCEPT ![c] =
                         AuthCall("resolved", "getSessionId", "cached", cachedSessionId)]
            /\ UNCHANGED sinceLogin
       ELSE IF credentials
            THEN login(c, "getSessionId", cachedSessionId)
            ELSE /\ au' = [au EXCEPT ![c] =
                              AuthCall("resolved", "getSessionId", "noCredentials", NoSession)]
                 /\ UNCHANGED sinceLogin
    /\ UNCHANGED <<credentials, cachedSessionId, challenged, reported>>

refreshSession(c) ==
    /\ au[c].pc = "idle"
    /\ cachedSessionId' = NoSession
    /\ login(c, "refreshSession", NoSession)
    /\ UNCHANGED <<credentials, challenged, reported>>

\* how a login attempt ends: the login error message is shown, the page is a
\* 2FA/challenge URL, the sessionid cookie is there or is not, or a browser
\* call threw (caught and logged)
LoginOutcomes == {"errorMessage", "challenge", "sessionCookie", "noCookie", "exception"}

\* the rest of login(): the attempt's outcome, the finally block, the return
LoginFinish(c) ==
    /\ au[c].pc = "attempt"
    /\ \E outcome \in LoginOutcomes, s \in Sessions :
          LET sessionId == IF outcome = "sessionCookie" THEN s ELSE NoSession
          IN /\ cachedSessionId' = IF outcome = "sessionCookie" THEN s ELSE cachedSessionId
             /\ au' = [au EXCEPT ![c] = AuthCall("resolved", au[c].op, outcome, sessionId)]
             /\ challenged' = (challenged \/ outcome = "challenge")
    /\ UNCHANGED <<credentials, sinceLogin, reported>>

\* the caller's continuation runs with the value the promise resolved to
AuthReturn(c) ==
    /\ au[c].pc = "resolved"
    /\ au' = [au EXCEPT ![c] = AuthIdle]
    /\ UNCHANGED <<credentials, cachedSessionId, sinceLogin, challenged, reported>>

invalidateSession ==
    /\ cachedSessionId' = NoSession
    /\ UNCHANGED <<credentials, sinceLogin, au, challenged, reported>>

\* d milliseconds pass for the session-id manager
AuthAdvance(d) ==
    /\ sinceLogin' = IF sinceLogin = NeverAttempted
                     THEN NeverAttempted
                     ELSE Older(sinceLogin, d, loginCooldownMs)
    /\ UNCHANGED <<credentials, cachedSessionId, au, challenged, reported>>

\* the constructor: instagram.sessionId from the configuration, or null
AuthConstructed(configured, sessionId) ==
    /\ credentials = configured
    /\ cachedSessionId = sessionId
    /\ sinceLogin = NeverAttempted
    /\ au = [c \in Procs |-> AuthIdle]
    /\ challenged = FALSE
    /\ reported = 0

InitAuthIdle == AuthConstructed(FALSE, NoSession)

\* ============================================================ AuthService
\* (core/auth/auth.service.ts, the cookie-file session store)

\* the session file: exists (fs.existsSync), readable (readFileSync and
\* JSON.parse do not throw), cookies (length of sessionData.cookies || []),
\* dated (new Date(sessionData.savedAt) is a valid date), age (now - savedAt)
SessionFile(exists, readable, cookies, dated, age) ==
    [exists |-> exists, readable |-> readable, cookies |-> cookies,
     dated |-> dated, age |-> age]

NoSessionFile == SessionFile(FALSE, FALSE, 0, FALSE, 0)

\* daysDiff > 7, with daysDiff = (now - savedAt) / (1000 * 60 * 60 * 24);
\* for an invalid date daysDiff is NaN and NaN > 7 is false
Expired(file) == file.dated /\ file.age > SessionMaxAgeDays * DayMs

\* loadSession: addCookiesThrows is whether context.addCookies rejects; a
\* file's n cookies are the first n of the account's cookies, and addCookies
\* replaces a cookie of the same name
loadSession(addCookiesThrows) ==
    /\ lastLoadOp' = "loadSession"
    /\ UNCHANGED sessionFile
    /\ IF ~sessionFile.exists
       THEN loaded' = "false" /\ UNCHANGED contextCookies
       ELSE IF ~sessionFile.readable              \* caught: return false
            THEN loaded' = "false" /\ UNCHANGED contextCookies
            ELSE IF sessionFile.cookies = 0
                 THEN loaded' = "false" /\ UNCHANGED contextCookies
                 ELSE IF Expired(sessionFile)
                      THEN loaded' = "false" /\ UNCHANGED contextCookies
                      ELSE IF addCookiesThrows
                           THEN loaded' = "false" /\ UNCHANGED contextCookies
                           ELSE /\ loaded' = "true"
                                /\ contextCookies' =
                                      Max(contextCookies, sessionFile.cookies)

\* saveSession: the context's cookies with savedAt = now (a failed write is
\* caught and leaves the file as it was)
saveSession(writeThrows) ==
    /\ lastLoadOp' = "saveSession"
    /\ sessionFile' = IF writeThrows THEN sessionFile
                      ELSE SessionFile(TRUE, TRUE, contextCookies, TRUE, 0)
    /\ UNCHANGED <<contextCookies, loaded>>

\* the files something other than saveSession can leave on disk
Ages == {0, SessionMaxAgeDays * DayMs, SessionMaxAgeDays * DayMs + 1, (SessionMaxAgeDays + 1) * DayMs}

OtherFiles ==
    {NoSessionFile}
    \cup {SessionFile(TRUE, FALSE, 0, FALSE, 0)}
    \cup {SessionFile(TRUE, TRUE, n, FALSE, 0) : n \in 0..MaxCookies}
    \cup {SessionFile(TRUE, TRUE, n, TRUE, a) : n \in 0..MaxCookies, a \in Ages}

FilePlaced ==
    /\ lastLoadOp' = "placed"
    /\ sessionFile' \in OtherFiles
    /\ UNCHANGED <<contextCookies, loaded>>

\* a new browser context: no cookies
NewContext ==
    /\ lastLoadOp' = "newContext"
    /\ contextCookies' = 0
    /\ UNCHANGED <<sessionFile, loaded>>

\* a day passes
LoadAdvance(d) ==
    /\ lastLoadOp' = "time"
    /\ sessionFile' = IF sessionFile.exists /\ sessionFile.readable /\ sessionFile.dated
                      THEN [sessionFile EXCEPT !.age = Older(@, d, MaxAgeDays * DayMs)]
                      ELSE sessionFile
    /\ UNCHANGED <<contextCookies, loaded>>

InitLoadIdle ==
    /\ sessionFile = NoSessionFile
    /\ contextCookies = 0
    /\ loaded = "none"
    /\ lastLoadOp = "none"

\* ======================================================== HashtagStrategy
\* (scraper/strategies/post.strategy.ts) and ScraperService.scrapeHashtag

Codes == 1..NCodes

\* what one page of HTML or one API response holds: shortcodes in order,
\* repetitions included
Batches == UNION {[1..n -> Codes] : n \in 0..MaxBatch}

HasCode(posts, sc) == \E i \in 1..Len(posts) : posts[i] = sc

\* (variant: a shortcode already collected is pushed again)
RECURSIVE AddPosts_NoDedup(_, _, _)
AddPosts_NoDedup(posts, batch, limit) ==
    IF batch = <<>> \/ Len(posts) >= limit
    THEN posts
    ELSE AddPosts_NoDedup(Append(posts, Head(batch)), Tail(batch), limit)

\* extractFromHtml, processCapturedResponses and the edge loops: each
\* shortcode not yet in posts is pushed while posts.length < limit
RECURSIVE AddPosts(_, _, _)
AddPosts(posts, batch, limit) ==
    IF batch = <<>> \/ Len(posts) >= limit
    THEN posts
    ELSE IF HasCode(posts, Head(batch))
         THEN AddPosts(posts, Tail(batch), limit)
         ELSE AddPosts(Append(posts, Head(batch)), Tail(batch), limit)

\* String.prototype.trim
RECURSIVE Trim(_)
Trim(str) ==
    IF str = <<>> THEN str
    ELSE IF Head(str) = " " THEN Trim(Tail(str))
    ELSE IF str[Len(str)] = " " THEN Trim(SubSeq(str, 1, Len(str) - 1))
    ELSE str

\* Array.prototype.slice(from, to)
Slice(seq, from, to) == SubSeq(seq, from + 1, Min(to, Len(seq)))

CeilDiv(a, b) == IF a <= 0 THEN 0 ELSE (a + b - 1) \div b

\* Math.ceil(limit / 50) + 3
MAX_PAGES(limit) == CeilDiv(limit, PageSize) + ExtraPages

\* scrollFallback: Math.ceil((limit - posts.length) / 5) + 10
maxScrolls(limit, have) == CeilDiv(limit - have, PostsPerScroll) + ExtraScrolls

\* scrapeViaLiveInterception: Math.max(25, Math.ceil(limit / 10) + 5)
maxLiveScrolls(limit) ==
    Max(MinLiveScrolls, CeilDiv(limit, PostsPerLiveScroll) + ExtraLiveScrolls)

\* (variant: strategy 1 is accepted like the others)
Accepted_AnyPosts(k, posts, limit) == Len(posts) > 0

\* strategy 1: posts.length >= limit * 0.7; strategies 2-4: posts.length > 0
Accepted(k, posts, limit) ==
    IF k = 1 THEN Len(posts) * 10 >= limit * 7 ELSE Len(posts) > 0

\* the local state of HashtagStrategy.scrapeHashtag(page, hashtag, limit)
HsIdle ==
    [pc |-> "idle", limit |-> 0, posts |-> <<>>, pageCount |-> 0,
     hasNextPage |-> TRUE, endCursor |-> FALSE, scrollCount |-> 0,
     noNewPostsCount |-> 0, maxScrolls |-> 0, invoked |-> <<>>, outputs |-> <<>>,
     result |-> <<>>]

\* the first position of strategy k
FirstStep(k) ==
    IF k = 1 THEN "s1.initial"
    ELSE IF k = 2 THEN "s2.initial" ELSE IF k = 3 THEN "s3" ELSE "s4"

\* strategy k is invoked: its own posts array and counters
Invoke(h, k) ==
    [h EXCEPT !.pc = FirstStep(k), !.posts = <<>>, !.pageCount = 0,
              !.hasNextPage = TRUE, !.endCursor = FALSE, !.scrollCount = 0,
              !.noNewPostsCount = 0, !.maxScrolls = 0, !.invoked = Append(@, k)]

\* strategy k returned output: scrapeHashtag returns it when it is accepted,
\* invokes the next strategy otherwise, and returns no posts after the last
StrategyReturns(h, k, output) ==
    LET done == [h EXCEPT !.outputs = Append(@, output), !.posts = <<>>]
    IN IF Accepted(k, output, h.limit)
       THEN [done EXCEPT !.pc = "resolved", !.result = output]
       ELSE IF k < 4
            THEN Invoke(done, k + 1)
            ELSE [done EXCEPT !.pc = "resolved", !.result = <<>>]

\* the caller of the session rate limiter in a hashtag scrape
TagCaller == 1

NoTagJob ==
    [pc |-> "idle", status |-> "none", error |-> "none", hashtag |-> <<>>, limit |-> 0,
     page |-> 0, posts |-> <<>>]

\* hashtags as sequences of characters
TagChars == {"a", "A", "1", "_", "#", " ", "-"}
Hashtags == UNION {[1..n -> TagChars] : n \in 0..MaxTagChars}

\* one hashtag that passes sanitizeHashtag and one that does not
SomeHashtags == {<<"a">>, <<"-">>}

\* String.prototype.replace(/^#/, '')
StripHash(str) == IF str # <<>> /\ Head(str) = "#" THEN Tail(str) ELSE str

\* String.prototype.toLowerCase
ToLowerCase(str) == [i \in 1..Len(str) |-> IF str[i] = "A" THEN "a" ELSE str[i]]

\* /^[a-z0-9_]+$/.test(str)
OnlyWordChars(str) ==
    str # <<>> /\ \A i \in 1..Len(str) : str[i] \in {"a", "1", "_"}

\* (variant: the format is not tested)
sanitizeHashtag_Unchecked(hashtag) ==
    [thrown |-> FALSE, sanitized |-> Trim(ToLowerCase(StripHash(hashtag)))]

\* HashtagStrategy.sanitizeHashtag: the sanitized hashtag, or
\* BadRequestException thrown
sanitizeHashtag(hashtag) ==
    LET sanitized == Trim(ToLowerCase(StripHash(hashtag)))
    IN  [thrown |-> ~OnlyWordChars(sanitized), sanitized |-> sanitized]

\* const offset = (page - 1) * limit
Offset(job) == (job.page - 1) * job.limit

\* the catch and finally blocks of ScraperService.scrapeHashtag, up to
\* closeContext
TagCaught(message) ==
    /\ reportWarning
    /\ tagJob' = [FailedUpdate(tagJob, message) EXCEPT !.pc = "closing"]

\* scrapeHashtag(hashtag, limit, page): createJob
TagStartWith(hashtags) ==
    /\ tagJob.pc = "idle"
    /\ \E hashtag \in hashtags, limit \in 1..MaxLimit, page \in 1..MaxPage :
          tagJob' = [NoTagJob EXCEPT !.pc = "prelude", !.status = "processing",
                                     !.hashtag = hashtag, !.limit = limit,
                                     !.page = page]
    /\ UNCHANGED <<hs, consecutiveWarnings, sinceWarning, activeContexts, sessVars>>

TagStart == TagStartWith(SomeHashtags)

\* the same call with any hashtag
TagStartAny == TagStartWith(Hashtags)

\* acquireToken, getNextProxy (null: no proxy configured), createContext and
\* createPage (their steps are those of Spec): they complete and the strategy
\* is called with totalToScrape = offset + limit, or createContext or
\* createPage throws, with the context stored or not
TagPrelude ==
    /\ tagJob.pc = "prelude"
    /\ \/ /\ activeContexts' = activeContexts \cup {TagCaller}
          /\ tagJob' = [tagJob EXCEPT !.pc = "strategy"]
          /\ hs' = [HsIdle EXCEPT !.pc = "called", !.limit = Offset(tagJob) + tagJob.limit]
          /\ UNCHANGED <<consecutiveWarnings, sinceWarning>>
       \/ /\ \E stored \in BOOLEAN :
                activeContexts' = IF stored THEN activeContexts \cup {TagCaller}
                                            ELSE activeContexts
          /\ TagCaught("createContext failed")
          /\ UNCHANGED hs
    /\ UNCHANGED sessVars

\* sanitizeHashtag, which throws on an invalid hashtag, then strategy 1
HsEnter ==
    /\ hs.pc = "called"
    /\ IF sanitizeHashtag(tagJob.hashtag).thrown
       THEN /\ hs' = [hs EXCEPT !.pc = "thrown"]
            /\ TagCaught("Invalid hashtag format")
       ELSE /\ hs' = Invoke(hs, 1)
            /\ UNCHANGED <<tagJob, consecutiveWarnings, sinceWarning>>
    /\ UNCHANGED <<activeContexts, sessVars>>

\* scrapeWithPagination after its try block: the scroll fallback, or the
\* posts collected
S1AfterTry(h) ==
    IF Len(h.posts) < h.limit /\ Len(h.posts) <= ScrollThreshold
    THEN [h EXCEPT !.pc = "s1.scroll", !.scrollCount = 0, !.noNewPostsCount = 0,
                   !.maxScrolls = maxScrolls(h.limit, Len(h.posts))]
    ELSE StrategyReturns(h, 1, Slice(h.posts, 0, h.limit))

\* (variant: no limit on the number of rounds)
S1LoopCheck_NoPageBound(h) ==
    IF Len(h.posts) < h.limit /\ h.hasNextPage
    THEN [h EXCEPT !.pc = "s1.page"]
    ELSE S1AfterTry(h)

\* the condition of the pagination loop
S1LoopCheck(h) ==
    IF Len(h.posts) < h.limit /\ h.hasNextPage /\ h.pageCount < MAX_PAGES(h.limit)
    THEN [h EXCEPT !.pc = "s1.page"]
    ELSE S1AfterTry(h)

\* scrapeWithPagination up to the loop: the session set-up, the navigation
\* or the page read throws (caught), or the initial HTML gives posts, with
\* or without pagination info
S1Initial ==
    /\ hs.pc = "s1.initial"
    /\ \/ hs' = S1AfterTry(hs)
       \/ \E batch \in Batches, found \in BOOLEAN, next \in BOOLEAN :
             hs' = S1LoopCheck([hs EXCEPT
                       !.posts = AddPosts(<<>>, batch, hs.limit),
                       !.hasNextPage = IF found THEN next ELSE TRUE,
                       !.endCursor = found])
    /\ UNCHANGED <<tagJob, consecutiveWarnings, sinceWarning, activeContexts, sessVars>>

\* one round of the pagination loop up to this.rateLimiter.reportSuccess():
\* neither request gives edges (break), or a page of edges is processed
S1Page ==
    /\ hs.pc = "s1.page"
    /\ \/ /\ hs' = S1AfterTry([hs EXCEPT !.pageCount = @ + 1])
          /\ UNCHANGED sessVars
       \/ /\ \E batch \in Batches \ {<<>>}, next \in BOOLEAN, cursor \in BOOLEAN :
                hs' = [hs EXCEPT !.pc = "s1.wait",
                                 !.pageCount = @ + 1,
                                 !.posts = AddPosts(hs.posts, batch, hs.limit),
                                 !.hasNextPage = next,
                                 !.endCursor = cursor]
          /\ SessReportSuccess
    /\ UNCHANGED <<tagJob, consecutiveWarnings, sinceWarning, activeContexts>>

\* await this.rateLimiter.waitBeforeRequest(), up to its first await
S1WaitCall ==
    /\ hs.pc = "s1.wait"
    /\ WaitCall(TagCaller)
    /\ hs' = [hs EXCEPT !.pc = "s1.waiting"]
    /\ UNCHANGED <<tagJob, consecutiveWarnings, sinceWarning, activeContexts>>

\* a sleep of enforceRateLimits is over
S1WaitStep ==
    /\ hs.pc = "s1.waiting"
    /\ WaitMinuteOver(TagCaller) \/ WaitHourOver(TagCaller)
    /\ UNCHANGED <<tagJob, hs, consecutiveWarnings, sinceWarning, activeContexts>>

\* waitBeforeRequest resolves: the end of the round
S1Waited ==
    /\ hs.pc = "s1.waiting"
    /\ WaitRecord(TagCaller)
    /\ hs' = IF ~hs.hasNextPage \/ ~hs.endCursor THEN S1AfterTry(hs)
                                                 ELSE S1LoopCheck(hs)
    /\ UNCHANGED <<tagJob, consecutiveWarnings, sinceWarning, activeContexts>>

\* what a scroll loop does after its extraction
AfterScroll(h, posts, limitOfScrolls, k) ==
    LET idle == IF Len(posts) > Len(h.posts) THEN 0 ELSE h.noNewPostsCount + 1
        count == h.scrollCount + 1
    IN IF idle >= MaxIdleScrolls \/ Len(posts) >= h.limit \/ count >= limitOfScrolls
       THEN StrategyReturns([h EXCEPT !.posts = posts], k, Slice(posts, 0, h.limit))
       ELSE [h EXCEPT !.posts = posts, !.noNewPostsCount = idle, !.scrollCount = count]

\* one round of scrollFallback: page.evaluate or page.content throws, and
\* nothing between here and ScraperService catches it, or the HTML is read
S1Scroll ==
    /\ hs.pc = "s1.scroll"
    /\ \/ /\ hs' = [hs EXCEPT !.pc = "thrown"]
          /\ TagCaught("scrollFallback failed")
       \/ /\ \E batch \in Batches :
                hs' = AfterScroll(hs, AddPosts(hs.posts, batch, hs.limit), hs.maxScrolls, 1)
          /\ UNCHANGED <<tagJob, consecutiveWarnings, sinceWarning>>
    /\ UNCHANGED <<activeContexts, sessVars>>

\* the condition of strategy 2's scroll loop
S2LoopCheck(h) ==
    IF Len(h.posts) < h.limit /\ h.scrollCount < maxLiveScrolls(h.limit)
    THEN [h EXCEPT !.pc = "s2.scroll"]
    ELSE StrategyReturns(h, 2, Slice(h.posts, 0, h.limit))

\* scrapeViaLiveInterception up to its loop; batch: the posts of the
\* responses captured so far and of the initial HTML; a throw is caught
S2Initial ==
    /\ hs.pc = "s2.initial"
    /\ \E batch \in Batches :
          LET h == [hs EXCEPT !.posts = AddPosts(<<>>, batch, hs.limit)]
          IN \/ hs' = StrategyReturns(h, 2, Slice(h.posts, 0, h.limit))
             \/ hs' = S2LoopCheck(h)
    /\ UNCHANGED <<tagJob, consecutiveWarnings, sinceWarning, activeContexts, sessVars>>

\* one round of strategy 2's scroll loop; a throw is caught and ends it
S2Scroll ==
    /\ hs.pc = "s2.scroll"
    /\ \E batch \in Batches :
          LET posts == AddPosts(hs.posts, batch, hs.limit)
          IN \/ hs' = StrategyReturns([hs EXCEPT !.posts = posts], 2,
                                      Slice(posts, 0, hs.limit))
             \/ hs' = AfterScroll(hs, posts, maxLiveScrolls(hs.limit), 2)
    /\ UNCHANGED <<tagJob, consecutiveWarnings, sinceWarning, activeContexts, sessVars>>

\* scrapeViaDocIdGraphQL (k = 3) and scrapeViaWebInfoEndpoint (k = 4): one
\* request; a failed request (caught) or a response without hashtag data
\* leaves posts empty
SingleRequest(k) ==
    /\ hs.pc = FirstStep(k)
    /\ \E batch \in Batches :
          hs' = StrategyReturns(hs, k, AddPosts(<<>>, batch, hs.limit))
    /\ UNCHANGED <<tagJob, consecutiveWarnings, sinceWarning, activeContexts, sessVars>>

\* the strategy resolved: posts = result.posts.slice(offset, offset + limit),
\* reportSuccess, updateJob completed, and the finally block
TagCompleted ==
    /\ tagJob.pc = "strategy"
    /\ hs.pc = "resolved"
    /\ hs' = [hs EXCEPT !.pc = "returned"]
    /\ reportSuccess
    /\ tagJob' = [CompletedUpdate(tagJob) EXCEPT
                     !.pc = "closing",
                     !.posts = Slice(hs.result, Offset(tagJob), Offset(tagJob) + tagJob.limit)]
    /\ UNCHANGED <<sinceWarning, activeContexts, sessVars>>

\* closeContext: no context under the id, context.close() resolves, or it
\* rejects and the operation rejects with it
TagClose ==
    /\ tagJob.pc = "closing"
    /\ IF TagCaller \notin activeContexts
       THEN tagJob' = [tagJob EXCEPT !.pc = "returned"] /\ UNCHANGED activeContexts
       ELSE \/ /\ activeContexts' = activeContexts \ {TagCaller}
               /\ tagJob' = [tagJob EXCEPT !.pc = "returned"]
            \/ /\ tagJob' = [tagJob EXCEPT !.pc = "rejected"]
               /\ UNCHANGED activeContexts
    /\ UNCHANGED <<hs, consecutiveWarnings, sinceWarning, sessVars>>

\* ==================================== ScraperService.searchPostsByCaption
\* the context id of the search
SearchCaller == 1

\* what one sub-strategy resolves with: any list of posts, repeats included
SearchResults == UNION {[1..n -> Codes] : n \in 0..MaxResults}

\* ran, threw, before, surfaced: history of the sub-strategies called, whether
\* each threw, matchingPosts.length when it was called, the shortcodes it
\* returned; auth: how the authentication before the search went
NoSearch ==
    [pc |-> "idle", status |-> "none", error |-> "none", resultLimit |-> 0,
     terms |-> 0, term |-> 0, matchingPosts |-> <<>>, seenShortcodes |-> {},
     ran |-> <<>>, threw |-> <<>>, before |-> <<>>, surfaced |-> <<>>,
     auth |-> "none"]

\* hasCredentials false, or what ensureLoggedIn resolves with: true, or false
\* (login catches its errors and returns false)
AuthResults == {"no credentials", "logged in", "not logged in"}

RECURSIVE Merge_NoSeen(_, _, _)
Merge_NoSeen(s, posts, matching) ==
    IF posts = <<>> \/ Len(s.matchingPosts) >= s.resultLimit THEN s
    ELSE IF Head(posts) \notin matching THEN Merge_NoSeen(s, Tail(posts), matching)
    ELSE Merge_NoSeen([s EXCEPT !.seenShortcodes = @ \cup {Head(posts)},
                                !.matchingPosts = Append(@, Head(posts))],
                      Tail(posts), matching)

\* the loop over a sub-strategy's posts: stop at resultLimit, skip a
\* shortcode already seen and (explore only) a post that does not match the
\* search terms
RECURSIVE Merge(_, _, _)
Merge(s, posts, matching) ==
    IF posts = <<>> \/ Len(s.matchingPosts) >= s.resultLimit THEN s
    ELSE IF Head(posts) \in s.seenShortcodes \/ Head(posts) \notin matching
         THEN Merge(s, Tail(posts), matching)
    ELSE Merge([s EXCEPT !.seenShortcodes = @ \cup {Head(posts)},
                         !.matchingPosts = Append(@, Head(posts))],
               Tail(posts), matching)

\* a sub-strategy is called
Ran(s, name, throws, posts) ==
    [s EXCEPT !.ran = Append(@, name),
              !.threw = Append(@, throws),
              !.before = Append(@, Len(s.matchingPosts)),
              !.surfaced = Append(@, {posts[i] : i \in 1..Len(posts)})]

SubStrategyCaught_Rethrown(s, resumed) ==
    [FailedUpdate(s, "sub-strategy failed") EXCEPT !.pc = "closing"]

\* the catch block of a sub-strategy: the message is logged and the search
\* resumes after the try statement
SubStrategyCaught(s, resumed) == resumed

\* if (matchingPosts.length < resultLimit) around strategy 3
AfterExplore(s) ==
    IF Len(s.matchingPosts) < s.resultLimit THEN [s EXCEPT !.pc = "reels"]
                                            ELSE [s EXCEPT !.pc = "finish"]

\* if (matchingPosts.length < resultLimit) around strategy 2
AfterHashtags(s) ==
    IF Len(s.matchingPosts) < s.resultLimit THEN [s EXCEPT !.pc = "explore"]
                                            ELSE AfterExplore(s)

\* the head of the loop over searchTerms
AfterTerm(s) ==
    LET t == [s EXCEPT !.term = @ + 1]
    IN IF t.term <= t.terms /\ Len(t.matchingPosts) < t.resultLimit
       THEN [t EXCEPT !.pc = "term"]
       ELSE AfterHashtags(t)

\* the outer catch block
SearchCaught(message) ==
    /\ reportWarning
    /\ search' = [FailedUpdate(search, message) EXCEPT !.pc = "closing"]

\* searchPostsByCaption(keyword, searchLimit, resultLimit): createJob and the
\* split of the keyword, which gives at least one term
SearchStart ==
    /\ search.pc = "idle"
    /\ \E resultLimit \in 1..MaxResultLimit, terms \in 1..MaxTerms :
          search' = [NoSearch EXCEPT !.pc = "prelude", !.status = "processing",
                                     !.resultLimit = resultLimit, !.terms = terms]
    /\ UNCHANGED <<consecutiveWarnings, sinceWarning, activeContexts>>

\* acquireToken, getNextProxy (null), createContext, createPage and, with
\* credentials, ensureLoggedIn: they complete; or createContext or createPage
\* throws; or ensureLoggedIn rejects, which it does when the page.goto that
\* follows a loaded session throws
SearchPrelude ==
    /\ search.pc = "prelude"
    /\ \/ /\ activeContexts' = activeContexts \cup {SearchCaller}
          /\ \E auth \in AuthResults : search' = AfterTerm([search EXCEPT !.auth = auth])
          /\ UNCHANGED <<consecutiveWarnings, sinceWarning>>
       \/ /\ \E stored \in BOOLEAN :
                activeContexts' = IF stored THEN activeContexts \cup {SearchCaller}
                                            ELSE activeContexts
          /\ SearchCaught("createContext failed")
       \/ /\ activeContexts' = activeContexts \cup {SearchCaller}
          /\ reportWarning
          /\ search' = [FailedUpdate(search, "page.goto failed") EXCEPT
                            !.pc = "closing", !.auth = "threw"]

\* strategy 1, one term: acquireToken, then hashtagStrategy.scrapeHashtag
\* throws or resolves with posts
SearchTerm ==
    /\ search.pc = "term"
    /\ \/ LET s == Ran(search, "hashtag", TRUE, <<>>)
          IN search' = SubStrategyCaught(s, AfterTerm(s))
       \/ \E posts \in SearchResults :
             search' = AfterTerm(Merge(Ran(search, "hashtag", FALSE, posts), posts, Codes))
    /\ UNCHANGED <<consecutiveWarnings, sinceWarning, activeContexts>>

\* strategy 2: acquireToken, then searchViaExplore throws or resolves with
\* posts, of which those in matching mention a search term
SearchExplore ==
    /\ search.pc = "explore"
    /\ \/ LET s == Ran(search, "explore", TRUE, <<>>)
          IN search' = SubStrategyCaught(s, AfterExplore(s))
       \/ \E posts \in SearchResults, matching \in SUBSET Codes :
             search' = AfterExplore(Merge(Ran(search, "explore", FALSE, posts), posts, matching))
    /\ UNCHANGED <<consecutiveWarnings, sinceWarning, activeContexts>>

\* strategy 3: acquireToken, then searchReelsViaExplore throws or resolves
SearchReels ==
    /\ search.pc = "reels"
    /\ \/ LET s == Ran(search, "reels", TRUE, <<>>)
          IN search' = SubStrategyCaught(s, [s EXCEPT !.pc = "finish"])
       \/ \E posts \in SearchResults :
             search' = [Merge(Ran(search, "reels", FALSE, posts), posts, Codes) EXCEPT
                           !.pc = "finish"]
    /\ UNCHANGED <<consecutiveWarnings, sinceWarning, activeContexts>>

\* reportSuccess and updateJob completed
SearchFinish ==
    /\ search.pc = "finish"
    /\ reportSuccess
    /\ search' = [CompletedUpdate(search) EXCEPT !.pc = "closing"]
    /\ UNCHANGED <<sinceWarning, activeContexts>>

\* finally: closeContext, then return { job, posts: matchingPosts }
SearchClose ==
    /\ search.pc = "closing"
    /\ IF SearchCaller \notin activeContexts
       THEN search' = [search EXCEPT !.pc = "returned"] /\ UNCHANGED activeContexts
       ELSE \/ /\ activeContexts' = activeContexts \ {SearchCaller}
               /\ search' = [search EXCEPT !.pc = "returned"]
            \/ /\ search' = [search EXCEPT !.pc = "rejected"]
               /\ UNCHANGED activeContexts
    /\ UNCHANGED <<consecutiveWarnings, sinceWarning>>

\* ------------------------------------------------ ScraperService.scrapeProfile
\* (scraper/scraper.service.ts) and ProfileStrategy
\* (scraper/strategies/profile.strategy.ts)

\* the shortcodes a profile page shows, in order, repetitions included
PostLists == UNION {[1..n -> Codes] : n \in 0..MaxPostsSeen}

\* where scrapeProfilePosts throws: nowhere, in page.goto, or in the DOM loop
ThrowPoints == {"none", "goto", "dom"}

\* a profile page as the strategies find it: the call that throws, whether the
\* page exists, the follower count of each captured GraphQL user, of the user
\* in the page source (<<>>: none found), and of the meta tags and header
ProfilePages ==
    [thrown : {"none", "goto", "content", "meta"}, exists : BOOLEAN,
     capturedData : UNION {[1..n -> 0..MaxFollowers] : n \in 0..MaxCaptured},
     pageSource : UNION {[1..n -> 0..MaxFollowers] : n \in 0..1},
     meta : 0..MaxFollowers, isPrivate : BOOLEAN]

Null == [via |-> "null", followersCount |-> 0, isPrivate |-> FALSE]
Profile(via, followersCount, isPrivate) ==
    [via |-> via, followersCount |-> followersCount, isPrivate |-> isPrivate]

\* the first captured user with followersCount > 0 (0: none)
RECURSIVE FirstPositive(_)
FirstPositive(counts) ==
    IF counts = <<>> THEN 0
    ELSE IF Head(counts) > 0 THEN Head(counts) ELSE FirstPositive(Tail(counts))

\* ProfileStrategy.scrapeProfile: null when page.goto or page.content throws
\* or the page is not available; the first GraphQL user with followers, the
\* page-source user if it has followers, else what extractProfileFromMetaTags
\* returns, and null from the catch block when that throws
scrapeProfile(page) ==
    IF page.thrown \in {"goto", "content"} \/ ~page.exists THEN Null
    ELSE IF FirstPositive(page.capturedData) > 0
    THEN Profile("graphql", FirstPositive(page.capturedData), page.isPrivate)
    ELSE IF FirstPositive(page.pageSource) > 0
    THEN Profile("page source", FirstPositive(page.pageSource), page.isPrivate)
    ELSE IF page.thrown = "meta" THEN Null
    ELSE Profile("meta", page.meta, page.isPrivate)

\* history: the page was loaded and is a profile's, the first of its GraphQL
\* and page-source users with followers, and the source of what was returned
NoPage == [loaded |-> FALSE, offered |-> "none", via |-> "none"]

Seen(page) ==
    [loaded |-> page.thrown \notin {"goto", "content"} /\ page.exists,
     offered |-> IF FirstPositive(page.capturedData) > 0 THEN "graphql"
                 ELSE IF FirstPositive(page.pageSource) > 0 THEN "page source"
                 ELSE "none",
     via |-> scrapeProfile(page).via]

NoProfileJob ==
    [pc |-> "idle", status |-> "none", error |-> "none", includePosts |-> FALSE,
     postsLimit |-> 0, totalItems |-> 0, scrapedItems |-> 0, progress |-> 0,
     profile |-> "unset", posts |-> <<>>, context |-> FALSE, seen |-> NoPage]

\* ProfileStrategy.scrapeProfilePosts: [] for a private page; the captured
\* GraphQL edges first, then the links of the DOM, each new shortcode pushed
\* while posts.length < limit; posts.slice(0, limit), or in the catch block
\* the posts pushed so far
scrapeProfilePosts(isPrivate, capturedPosts, postLinks, limit, thrown) ==
    LET fromEdges == AddPosts(<<>>, capturedPosts, limit)
        fromLinks == AddPosts(fromEdges, postLinks, limit)
    IN  CASE thrown = "goto" -> <<>>
          [] isPrivate -> <<>>
          [] thrown = "dom" -> fromEdges
          [] OTHER -> Slice(fromLinks, 0, limit)

\* createJob up to the try block
ProfileStart ==
    /\ profileJob.pc = "idle"
    /\ \E includePosts \in BOOLEAN, postsLimit \in 0..MaxPostsLimit :
          profileJob' = [NoProfileJob EXCEPT !.pc = "prelude", !.status = "processing",
                                             !.includePosts = includePosts,
                                             !.postsLimit = postsLimit,
                                             !.totalItems = postsLimit + 1]

\* acquireToken, getNextProxy, createContext and createPage: they complete,
\* or createContext or createPage throws, with the context stored or not
ProfilePrelude ==
    /\ profileJob.pc = "prelude"
    /\ \/ profileJob' = [profileJob EXCEPT !.pc = "profile", !.context = TRUE]
       \/ \E stored \in BOOLEAN :
             profileJob' = [profileJob EXCEPT !.status = "failed",
                                              !.error = "createContext failed",
                                              !.pc = "closing", !.context = stored]

\* profileStrategy.scrapeProfile and the update that follows it, then the
\* test profile && includePosts && !profile.isPrivate
ProfileScraped ==
    /\ profileJob.pc = "profile"
    /\ \E page \in ProfilePages :
          LET returned == scrapeProfile(page)
              profile == IF returned = Null THEN "null"
                         ELSE IF returned.isPrivate THEN "private" ELSE "public"
          IN  profileJob' = [profileJob EXCEPT
                                !.profile = profile, !.scrapedItems = 1, !.progress = 10,
                                !.seen = Seen(page),
                                !.pc = IF profile = "public" /\ profileJob.includePosts
                                       THEN "posts" ELSE "finish"]

\* acquireToken, scrapeProfilePosts, posts.push(...profilePosts) and the
\* update that follows
ProfilePosts ==
    /\ profileJob.pc = "posts"
    /\ \E isPrivate \in BOOLEAN, capturedPosts \in PostLists, postLinks \in PostLists,
          thrown \in ThrowPoints :
          LET profilePosts == scrapeProfilePosts(isPrivate, capturedPosts, postLinks,
                                                 profileJob.postsLimit, thrown)
              posts == profileJob.posts \o profilePosts
          IN  profileJob' = [profileJob EXCEPT !.posts = posts,
                                               !.scrapedItems = 1 + Len(posts),
                                               !.progress = 100, !.pc = "finish"]

\* reportSuccess, markProxySuccess and the completed update (status and
\* completedAt only)
ProfileFinish ==
    /\ profileJob.pc = "finish"
    /\ profileJob' = [profileJob EXCEPT !.status = "completed", !.pc = "closing"]

\* the finally block: closeContext, then the return statement, or closeContext
\* rejects and so does scrapeProfile
ProfileClose ==
    /\ profileJob.pc = "closing"
    /\ \/ profileJob' = [profileJob EXCEPT !.pc = "returned", !.context = FALSE]
       \/ /\ profileJob.context
          /\ profileJob' = [profileJob EXCEPT !.pc = "rejected"]

InitProfileIdle == profileJob = NoProfileJob

\* ------------------------------------------------------------- DataService
\* (scraper/data/data.service.ts): the jobs Map and its three methods, called
\* in any order with any arguments

JobIds == 1..NJobIds

ScrapeStatus == {"pending", "processing", "completed", "failed"}

\* the fields of a ScrapeJob that change after createJob; completedAt: set or not
JobFields == {"status", "scrapedItems", "error", "completedAt"}

ScrapeJobs ==
    [status : ScrapeStatus, scrapedItems : 0..MaxItems, error : {"none", "message"},
     completedAt : BOOLEAN]

\* Map.get of an id that is no key
Undefined == [status |-> "undefined", scrapedItems |-> 0, error |-> "none",
              completedAt |-> FALSE]

\* Partial<ScrapeJob>: the fields present, and their values (those of
\* Undefined for the fields absent)
PartialJobs ==
    {u \in [fields : SUBSET JobFields,
            values : [status : ScrapeStatus \cup {"undefined"}, scrapedItems : 0..MaxItems,
                      error : {"none", "message"}, completedAt : BOOLEAN]] :
        /\ \A f \in JobFields \ u.fields : u.values[f] = Undefined[f]
        /\ "status" \in u.fields => u.values.status \in ScrapeStatus}

\* Object.assign(job, updates)
ObjectAssign(job, updates) ==
    [f \in DOMAIN job |-> IF f \in updates.fields THEN updates.values[f] ELSE job[f]]

EmptyStore == [jobs |-> [id \in JobIds |-> Undefined], op |-> "none", id |-> 0,
               returned |-> Undefined]

createJob_(id, job) ==
    store' = [jobs |-> [store.jobs EXCEPT ![id] = job], op |-> "createJob",
              id |-> id, returned |-> job]

updateJob(jobId, updates) ==
    LET job == store.jobs[jobId]
    IN  IF job = Undefined
        THEN store' = [store EXCEPT !.op = "updateJob", !.id = jobId,
                                    !.returned = Undefined]
        ELSE LET assigned == ObjectAssign(job, updates)
             IN  store' = [jobs |-> [store.jobs EXCEPT ![jobId] = assigned],
                           op |-> "updateJob", id |-> jobId, returned |-> assigned]

getJob(jobId) ==
    store' = [store EXCEPT !.op = "getJob", !.id = jobId,
                           !.returned = store.jobs[jobId]]

DataCreate == \E id \in JobIds, job \in ScrapeJobs : createJob_(id, job)

DataUpdate == \E jobId \in JobIds, updates \in PartialJobs : updateJob(jobId, updates)

DataGet == \E jobId \in JobIds : getJob(jobId)

InitDataIdle == store = EmptyStore

\* ------------------------------------------------------------- parseCount
\* (ProfileStrategy in scraper/strategies/profile.strategy.ts, ReelStrategy in
\* scraper/strategies/reel.strategy.ts): a string is a sequence of characters

Chars == {"1", "5", ".", ",", "k", "M", " ", "x"}

Examples ==
    {<<"1", ".", "5", "K">>, <<"2", "M">>, <<"1", "2", ",", "3", "4", "5">>, <<>>}

CountStrings == UNION {[1..n -> Chars] : n \in 0..MaxChars} \cup Examples

Digits == {"0", "1", "2", "3", "4", "5", "6", "7", "8", "9"}
Suffixes == {"K", "M", "B"}

DigitValue(c) ==
    CASE c = "0" -> 0 [] c = "1" -> 1 [] c = "2" -> 2 [] c = "3" -> 3 [] c = "4" -> 4
      [] c = "5" -> 5 [] c = "6" -> 6 [] c = "7" -> 7 [] c = "8" -> 8 [] c = "9" -> 9

\* the digits read as a decimal integer ("" as 0)
RECURSIVE DecimalValue(_)
DecimalValue(digits) ==
    IF digits = <<>> THEN 0
    ELSE 10 * DecimalValue(SubSeq(digits, 1, Len(digits) - 1))
            + DigitValue(digits[Len(digits)])

\* length of the longest prefix of str made of characters of set
RECURSIVE Run(_, _)
Run(str, set) ==
    IF str = <<>> \/ Head(str) \notin set THEN 0 ELSE 1 + Run(Tail(str), set)

Drop(str, n) == SubSeq(str, n + 1, Len(str))

\* String.prototype.replace(/,/g, '')
RemoveCommas(str) == SelectSeq(str, LAMBDA c : c # ",")

UpperChar(c) ==
    CASE c = "k" -> "K" [] c = "m" -> "M" [] c = "b" -> "B" [] c = "x" -> "X"
      [] OTHER -> c

\* String.prototype.toUpperCase
ToUpperCase(str) == [i \in 1..Len(str) |-> UpperChar(str[i])]

CleanStr(countStr) == ToUpperCase(Trim(RemoveCommas(countStr)))

\* a number of JavaScript: NaN, or value / 10^scale
NaN == [nan |-> TRUE, value |-> 0, scale |-> 0]
Number(value, scale) == [nan |-> FALSE, value |-> value, scale |-> scale]

NoMatch == [found |-> FALSE, num |-> <<>>, suffix |-> "undefined"]

\* cleanStr.match(/^([\d.]+)\s*([KMB])?$/) of ProfileStrategy
MatchAnchored(cleanStr) ==
    LET n == Run(cleanStr, Digits \cup {"."})
        rest == Drop(cleanStr, n)
        tail == Drop(rest, Run(rest, {" "}))
    IN  IF n = 0 THEN NoMatch
        ELSE IF tail = <<>>
        THEN [found |-> TRUE, num |-> SubSeq(cleanStr, 1, n), suffix |-> "undefined"]
        ELSE IF Len(tail) = 1 /\ tail[1] \in Suffixes
        THEN [found |-> TRUE, num |-> SubSeq(cleanStr, 1, n), suffix |-> tail[1]]
        ELSE NoMatch

\* cleanStr.match(/([\d.]+)([KMB])?/) of ReelStrategy: the leftmost run of
\* digits and dots, and the suffix letter if one follows it at once
RECURSIVE MatchAnywhere(_)
MatchAnywhere(cleanStr) ==
    LET n == Run(cleanStr, Digits \cup {"."})
        rest == Drop(cleanStr, n)
    IN  IF cleanStr = <<>> THEN NoMatch
        ELSE IF n = 0 THEN MatchAnywhere(Tail(cleanStr))
        ELSE [found |-> TRUE, num |-> SubSeq(cleanStr, 1, n),
              suffix |-> IF rest # <<>> /\ rest[1] \in Suffixes THEN rest[1]
                         ELSE "undefined"]

\* parseFloat of a string of digits and dots: the longest prefix that is a
\* decimal literal (digits, then a dot and digits), NaN if it has no digit
parseFloat(str) ==
    LET i == Run(str, Digits)
        afterInt == Drop(str, i)
        f == IF afterInt # <<>> /\ afterInt[1] = "." THEN Run(Tail(afterInt), Digits)
             ELSE 0
        fraction == IF f = 0 THEN <<>> ELSE SubSeq(afterInt, 2, f + 1)
    IN  IF i + f = 0 THEN NaN
        ELSE Number(DecimalValue(SubSeq(str, 1, i) \o fraction), f)

Multiplier(suffix) ==
    CASE suffix = "K" -> 1000 [] suffix = "M" -> 1000000 [] suffix = "B" -> 1000000000
      [] OTHER -> 1

\* num *= multiplier (the products of the strings considered are exact in
\* double precision)
Times(num, k) == IF num.nan THEN NaN ELSE Number(num.value * k, num.scale)

\* Math.round: the nearest integer, halves upwards; NaN for NaN
MathRound(num) ==
    IF num.nan THEN NaN
    ELSE Number((2 * num.value + Pow(10, num.scale)) \div (2 * Pow(10, num.scale)), 0)

\* the two parseCount methods from the match on
Scaled(match) ==
    IF ~match.found THEN Number(0, 0)
    ELSE MathRound(Times(parseFloat(match.num), Multiplier(match.suffix)))

\* ProfileStrategy.parseCount
parseCountProfile(countStr) ==
    IF countStr = <<>> THEN Number(0, 0) ELSE Scaled(MatchAnchored(CleanStr(countStr)))

\* ReelStrategy.parseCount
parseCountReel(countStr) ==
    IF countStr = <<>> THEN Number(0, 0) ELSE Scaled(MatchAnywhere(CleanStr(countStr)))

Unparsed == [nan |-> FALSE, value |-> 0, scale |-> 1]

NoParse == [input |-> <<>>, profile |-> Unparsed, reel |-> Unparsed]

ParseProfile ==
    /\ parsed.profile = Unparsed
    /\ parsed' = [parsed EXCEPT !.profile = parseCountProfile(parsed.input)]

ParseReel ==
    /\ parsed.reel = Unparsed
    /\ parsed' = [parsed EXCEPT !.reel = parseCountReel(parsed.input)]

InitParseIdle == parsed = NoParse

\* --------------------------------------------- ScraperService.scrapeDirectUrls
\* (scraper/scraper.service.ts): the urls by the branch they take

UrlKinds == {"post", "profile", "hashtag", "unknown"}

UrlLists == UNION {[1..n -> UrlKinds] : n \in 0..MaxUrls}

\* how a hashtag URL goes: no name after tags/ and scrapeHashtag is not
\* called, sanitizeHashtag throws, strategy 1 is accepted, or strategy 2 runs
\* as well (strategies 3 and 4 load no page)
HashtagRuns == {"no hashtag", "invalid", "one strategy", "two strategies"}

NoDirect ==
    [pc |-> "idle", status |-> "none", error |-> "none", urls |-> <<>>,
     includeComments |-> FALSE, i |-> 0, results |-> <<>>, scrapedItems |-> 0,
     context |-> FALSE, admissions |-> 0, navigations |-> 0, onAdmission |-> 0,
     listeners |-> 0, staleLoad |-> FALSE]

\* page.goto called n times: history of the navigations made, in all and
\* since the last acquireToken
Navigated(d, n) ==
    [d EXCEPT !.navigations = @ + n, !.onAdmission = @ + n]

\* page.on('response', ...): one more listener attached to the job's page
Attach(d) == [d EXCEPT !.listeners = @ + 1]

\* page.off('response', responseHandler)
Detach(d) == [d EXCEPT !.listeners = @ - 1]

\* page.goto by a strategy that has own listeners attached: history of the
\* page loads made while a listener of a strategy that returned is attached
Loaded(d, own) ==
    [Navigated(d, 1) EXCEPT !.staleLoad = @ \/ d.listeners > own]

\* ProfileStrategy.scrapeProfile and scrapeProfilePosts: page.on, page.goto,
\* and no page.off on any path
ProfileStrategyCall(d) == Loaded(Attach(d), 1)

\* scrapeViaLiveInterception: page.on, page.goto, and page.off in the finally
\* block
scrapeViaLiveInterception(d) == Detach(Loaded(Attach(d), 1))

\* results.push({ type, url, ... }): the url by its position in urls
Result(d, type) == [type |-> type, url |-> d.i + 1]

\* the body of the inner try block reached its end: the result is pushed and
\* the job updated
UrlDone(d, type) ==
    [d EXCEPT !.results = Append(@, Result(d, type)), !.scrapedItems = d.i + 1,
              !.i = @ + 1, !.pc = "loop"]

\* the inner catch block
UrlFailed(d) ==
    [d EXCEPT !.results = Append(@, Result(d, "error")), !.i = @ + 1, !.pc = "loop"]

\* createJob up to the try block
DirectStart ==
    /\ direct.pc = "idle"
    /\ \E urls \in UrlLists, includeComments \in BOOLEAN :
          direct' = [NoDirect EXCEPT !.pc = "prelude", !.status = "processing",
                                     !.urls = urls, !.includeComments = includeComments]

\* getNextProxy, createContext and createPage (no acquireToken before them):
\* they complete, or createContext or createPage throws, with the context
\* stored or not
DirectPrelude ==
    /\ direct.pc = "prelude"
    /\ \/ direct' = [direct EXCEPT !.pc = "loop", !.context = TRUE]
       \/ \E stored \in BOOLEAN :
             direct' = [direct EXCEPT !.status = "failed",
                                      !.error = "createContext failed",
                                      !.pc = "closing", !.context = stored]

\* the head of the for loop: acquireToken for urls[i]
DirectToken ==
    /\ direct.pc = "loop"
    /\ direct.i < Len(direct.urls)
    /\ direct' = [direct EXCEPT !.admissions = @ + 1, !.onAdmission = 0, !.pc = "url"]

\* a post or reel URL: scrapePost, then scrapeComments if includeComments and
\* a post came back; each loads the post's page
DirectPost ==
    /\ direct.pc = "url"
    /\ direct.urls[direct.i + 1] = "post"
    /\ \E post \in BOOLEAN :
          direct' = UrlDone(IF direct.includeComments /\ post
                            THEN Loaded(Loaded(direct, 0), 0)
                            ELSE Loaded(direct, 0), "post")

\* a profile URL: scrapeProfile, then scrapeProfilePosts; each loads the
\* profile's page
DirectProfile ==
    /\ direct.pc = "url"
    /\ direct.urls[direct.i + 1] = "profile"
    /\ direct' = UrlDone(ProfileStrategyCall(ProfileStrategyCall(direct)), "profile")

\* a hashtag URL: hashtagStrategy.scrapeHashtag
DirectHashtag ==
    /\ direct.pc = "url"
    /\ direct.urls[direct.i + 1] = "hashtag"
    /\ \E run \in HashtagRuns :
          direct' = CASE run = "no hashtag" ->
                            [direct EXCEPT !.scrapedItems = direct.i + 1, !.i = @ + 1,
                                           !.pc = "loop"]
                      [] run = "invalid" -> UrlFailed(direct)
                      [] run = "one strategy" -> UrlDone(Loaded(direct, 0), "hashtag")
                      [] OTHER -> UrlDone(scrapeViaLiveInterception(Loaded(direct, 0)),
                                          "hashtag")

\* any other URL
DirectUnknown ==
    /\ direct.pc = "url"
    /\ direct.urls[direct.i + 1] = "unknown"
    /\ direct' = UrlDone(direct, "unknown")

\* after the loop: reportSuccess, markProxySuccess and the completed update
DirectFinish ==
    /\ direct.pc = "loop"
    /\ direct.i = Len(direct.urls)
    /\ direct' = [direct EXCEPT !.status = "completed",
                                !.scrapedItems = Len(direct.results), !.pc = "closing"]

\* the finally block: closeContext, then the return statement, or closeContext
\* rejects and so does scrapeDirectUrls
DirectClose ==
    /\ direct.pc = "closing"
    /\ \/ direct' = [direct EXCEPT !.pc = "returned", !.context = FALSE]
       \/ /\ direct.context
          /\ direct' = [direct EXCEPT !.pc = "rejected"]

InitDirectIdle == direct = NoDirect

\* ------------------------------------------------ list-returning extractions
\* CommentStrategy.scrapeComments (scraper/strategies/post.strategy.ts),
\* ReelStrategy.scrapeProfileReels (scraper/strategies/reel.strategy.ts) and
\* ProfileStrategy.scrapeProfilePosts, each called once on any page

Extractions == {"comments", "reels", "posts"}

\* the comment elements of the page: username and text, repetitions included
RawComments == UNION {[1..n -> [username : 1..NAuthors, text : 1..NTexts]] : n \in 0..MaxRaw}

SameComment(c, raw) == c.ownerUsername = raw.username /\ c.text = raw.text

\* (variant: a comment already collected is pushed again)
RECURSIVE AddComments_NoDedup(_, _, _)
AddComments_NoDedup(comments, rawComments, limit) ==
    IF rawComments = <<>> \/ Len(comments) >= limit
    THEN comments
    ELSE AddComments_NoDedup(Append(comments, [id |-> Len(comments),
                                               ownerUsername |-> Head(rawComments).username,
                                               text |-> Head(rawComments).text]),
                             Tail(rawComments), limit)

\* the conversion loop of scrapeComments: a raw comment is skipped when one of
\* the same author and text is collected, the others are pushed with the id
\* comment_<shortcode>_<comments.length> while comments.length < limit
RECURSIVE AddComments(_, _, _)
AddComments(comments, rawComments, limit) ==
    IF rawComments = <<>> \/ Len(comments) >= limit
    THEN comments
    ELSE IF \E i \in 1..Len(comments) : SameComment(comments[i], Head(rawComments))
    THEN AddComments(comments, Tail(rawComments), limit)
    ELSE AddComments(Append(comments, [id |-> Len(comments),
                                       ownerUsername |-> Head(rawComments).username,
                                       text |-> Head(rawComments).text]),
                     Tail(rawComments), limit)

\* Math.ceil(limit / 12) + 5
maxScrollAttempts(limit) == CeilDiv(limit, 12) + 5

Repeats(seq) == \E i, j \in 1..Len(seq) : i < j /\ seq[i] = seq[j]

NoExtract ==
    [fn |-> "none", pc |-> "idle", limit |-> 0, items |-> <<>>, scrollAttempts |-> 0,
     repeated |-> FALSE, returned |-> <<>>]

Returns(e, list) == [e EXCEPT !.pc = "returned", !.returned = list]

\* scrapeComments up to the extraction: page.goto, the not-found test (return
\* []), the load-more loop; any of them may throw (the catch block returns
\* comments)
CommentsCall ==
    /\ extract.pc = "idle"
    /\ \E limit \in 0..MaxExtractLimit :
          LET e == [NoExtract EXCEPT !.fn = "comments", !.limit = limit]
          IN  extract' \in {Returns(e, <<>>), [e EXCEPT !.pc = "evaluate"]}

\* page.evaluate, the conversion loop and comments.slice(0, limit); or
\* page.evaluate throws
CommentsExtract ==
    /\ extract.pc = "evaluate"
    /\ \/ \E rawComments \in RawComments :
             LET comments == AddComments(<<>>, rawComments, extract.limit)
             IN  extract' = Returns([extract EXCEPT !.items = comments,
                                                    !.repeated = Repeats(rawComments)],
                                    Slice(comments, 0, extract.limit))
       \/ extract' = Returns(extract, extract.items)

\* scrapeProfileReels up to its loop: page.goto, the not-found and no-reels
\* tests (return []); any of them may throw (the catch block returns reels)
ReelsCall ==
    /\ extract.pc = "idle"
    /\ \E limit \in 0..MaxExtractLimit :
          LET e == [NoExtract EXCEPT !.fn = "reels", !.limit = limit]
          IN  extract' \in {Returns(e, <<>>), [e EXCEPT !.pc = "loop"]}

\* one pass of the while loop of scrapeProfileReels: the links of the page,
\* each new shortcode pushed while reels.length < limit, then break or scroll;
\* with the loop condition false, reels.slice(0, limit); a page call that
\* throws returns the reels pushed so far
ReelsPass ==
    /\ extract.pc = "loop"
    /\ IF Len(extract.items) < extract.limit
          /\ extract.scrollAttempts < maxScrollAttempts(extract.limit)
       THEN \/ \E reelLinks \in PostLists :
                  LET reels == AddPosts(extract.items, reelLinks, extract.limit)
                      e == [extract EXCEPT
                               !.items = reels,
                               !.repeated = @ \/ Repeats(extract.items \o reelLinks)]
                  IN  IF Len(reels) >= extract.limit
                      THEN extract' = Returns(e, Slice(reels, 0, extract.limit))
                      ELSE extract' \in {[e EXCEPT !.scrollAttempts = @ + 1],
                                         Returns(e, reels)}
            \/ extract' = Returns(extract, extract.items)
       ELSE extract' = Returns(extract, Slice(extract.items, 0, extract.limit))

\* scrapeProfilePosts
PostsCall ==
    /\ extract.pc = "idle"
    /\ \E limit \in 0..MaxExtractLimit, isPrivate \in BOOLEAN, capturedPosts \in PostLists,
          postLinks \in PostLists, thrown \in ThrowPoints :
          LET posts == scrapeProfilePosts(isPrivate, capturedPosts, postLinks, limit,
                                          thrown)
          IN  extract' = Returns([NoExtract EXCEPT
                                     !.fn = "posts", !.limit = limit, !.items = posts,
                                     !.repeated = Repeats(capturedPosts \o postLinks)],
                                 posts)

InitExtractIdle == extract = NoExtract

InitLaterIdle ==
    /\ InitProfileIdle
    /\ InitParseIdle
    /\ InitDataIdle
    /\ InitDirectIdle
    /\ InitExtractIdle
    /\ InitPacedIdle

InitSearchIdle == search = NoSearch

InitTagIdle ==
    /\ tagJob = NoTagJob
    /\ hs = HsIdle

InitRL ==
    /\ InitAuthIdle
    /\ InitLoadIdle
    /\ InitTagIdle
    /\ InitSearchIdle
    /\ InitServed
    /\ InitLaterIdle
    /\ InitRLIdle
    /\ InitProxyNone
    /\ InitSessIdle
    /\ InitJobsIdle

\* ---------------------------------------------- specification SpecRL:
\* concurrent callers of acquireToken, reports and resets from outside
RLTick ==
    /\ fineTicks < MaxFineTicks
    /\ fineTicks' = fineTicks + 1
    /\ RLAdvance(TickMs)

RLLongTick ==
    /\ RLAdvance(LongTickMs)
    /\ UNCHANGED fineTicks

RLReportWarning ==
    /\ warningsReported < MaxWarnings
    /\ warningsReported' = warningsReported + 1
    /\ reportWarning
    /\ UNCHANGED <<minuteBucket, hourBucket, rl, fineTicks, sinceFull, admitsSinceFull>>

RLReportSuccess ==
    /\ reportSuccess
    /\ UNCHANGED <<minuteBucket, hourBucket, sinceWarning, rl, fineTicks,
                   warningsReported, sinceFull, admitsSinceFull>>

NextRL ==
    \/ \E c \in Procs : AcquireCall(c) /\ UNCHANGED notRL
    \/ \E c \in Procs : AcquireBlocked(c) /\ UNCHANGED notRL
    \/ \E c \in Procs : AcquireWake(c) /\ UNCHANGED notRL
    \/ \E c \in Procs : AcquireAdmit(c) /\ UNCHANGED notRL
    \/ \E c \in Procs : AcquireReturn(c) /\ UNCHANGED notRL
    \/ RLReportWarning /\ UNCHANGED notRL
    \/ RLReportSuccess /\ UNCHANGED notRL
    \/ RLReset /\ UNCHANGED notRL
    \/ RLTick /\ UNCHANGED notRL
    \/ RLLongTick /\ UNCHANGED notRL

SpecRL == InitRL /\ [][NextRL]_vars

\* -------------------------------------------- specification SpecProxy:
\* the pool's operations called in any order
InitProxy ==
    /\ \E list \in {<<>>} \cup {<<k>> : k \in Keys} \cup {<<j, k>> : j, k \in Keys} :
          ProxiesLoaded(list)
    /\ InitRLIdle
    /\ InitSessIdle
    /\ InitJobsIdle
    /\ InitAuthIdle
    /\ InitLoadIdle
    /\ InitTagIdle
    /\ InitSearchIdle
    /\ InitServed
    /\ InitLaterIdle

PoolGetNext == getNextProxy /\ Served

PoolFailed == \E k \in Keys :
    /\ Find(k) # 0 => proxies[Find(k)].failCount < MaxFailCount
    /\ markProxyFailed(k)
    /\ StillServed

PoolSuccess == \E k \in Keys : markProxySuccess(k) /\ StillServed

PoolReset == \E k \in Keys : resetProxy(k) /\ StillServed

PoolAdd == \E k \in Keys :
    /\ Len(proxies) < MaxProxies
    /\ addProxy(k)
    /\ StillServed

NextProxy ==
    \/ PoolGetNext /\ UNCHANGED notProxy
    \/ PoolFailed /\ UNCHANGED notProxy
    \/ PoolSuccess /\ UNCHANGED notProxy
    \/ PoolReset /\ UNCHANGED notProxy
    \/ PoolAdd /\ UNCHANGED notProxy

SpecProxy == InitProxy /\ [][NextProxy]_vars

\* --------------------------------------------- specification SpecSess:
\* concurrent callers of waitBeforeRequest, error and success reports
InitSess ==
    /\ InitAuthIdle
    /\ InitLoadIdle
    /\ InitTagIdle
    /\ InitSearchIdle
    /\ InitServed
    /\ InitLaterIdle
    /\ InitSessIdle
    /\ InitRLIdle
    /\ InitProxyNone
    /\ InitJobsIdle

SessTick ==
    /\ sessTicks < MaxSessTicks
    /\ sessTicks' = sessTicks + 1
    /\ SessAdvance(TickMs)

SessLongTick ==
    /\ SessAdvance(LongTickMs)
    /\ UNCHANGED sessTicks

NextSess ==
    \/ \E c \in Procs : WaitCall(c) /\ UNCHANGED notSess
    \/ \E c \in Procs : WaitCooldownOver(c) /\ UNCHANGED notSess
    \/ \E c \in Procs : WaitMinuteOver(c) /\ UNCHANGED notSess
    \/ \E c \in Procs : WaitHourOver(c) /\ UNCHANGED notSess
    \/ \E c \in Procs : WaitRecord(c) /\ UNCHANGED notSess
    \/ SessReportSuccess /\ UNCHANGED notSess
    \/ \E code \in StatusCodes : reportError(code) /\ UNCHANGED notSess
    \/ SessTick /\ UNCHANGED notSess
    \/ SessLongTick /\ UNCHANGED notSess

SpecSess == InitSess /\ [][NextSess]_vars

\* --------------------------------------------------- specification Spec:
\* concurrent ScraperService operations, one job each
Init ==
    /\ \E list \in {<<>>, <<1, 2>>} : ProxiesLoaded(list)
    /\ InitRLIdle
    /\ InitSessIdle
    /\ InitJobsIdle
    /\ InitAuthIdle
    /\ InitLoadIdle
    /\ InitTagIdle
    /\ InitSearchIdle
    /\ InitServed
    /\ InitLaterIdle

\* time passes
JobTick ==
    /\ RLAdvance(LongTickMs)
    /\ UNCHANGED <<fineTicks, proxyVars, jobVars>>

JobStep(j) ==
    \/ StartJob(j) /\ UNCHANGED notJob
    \/ AcquireBlocked(j) /\ UNCHANGED <<proxyVars, jobVars, notJob>>
    \/ AcquireWake(j) /\ UNCHANGED <<proxyVars, jobVars, notJob>>
    \/ AcquireAdmit(j) /\ UNCHANGED <<proxyVars, jobVars, notJob>>
    \/ TokenGranted(j) /\ UNCHANGED notJob
    \/ CreateContext(j) /\ UNCHANGED notJob
    \/ CreatePage(j) /\ UNCHANGED notJob
    \/ Strategy(j) /\ UNCHANGED notJob
    \/ CloseDone(j) /\ UNCHANGED notJob

Next ==
    \/ \E j \in Procs : JobStep(j)
    \/ JobTick /\ UNCHANGED notJob

Spec == Init /\ [][Next]_vars

\* the default configuration: no proxy list
InitLive ==
    /\ InitAuthIdle
    /\ InitLoadIdle
    /\ InitTagIdle
    /\ InitSearchIdle
    /\ InitServed
    /\ InitLaterIdle
    /\ InitProxyNone
    /\ InitRLIdle
    /\ InitSessIdle
    /\ InitJobsIdle

\* the event loop does not stop while a continuation is ready or a timer
\* is pending
LiveSpec == InitLive /\ [][Next]_vars /\ WF_vars(Next)

\* --------------------------------------------- specification SpecAuth:
\* concurrent callers of the session-id manager, and the error reports the
\* session rate limiter receives meanwhile
InitAuth ==
    /\ \E configured \in BOOLEAN, sessionId \in {NoSession, 1} :
          AuthConstructed(configured, sessionId)
    /\ InitRLIdle
    /\ InitProxyNone
    /\ InitSessIdle
    /\ InitJobsIdle
    /\ InitLoadIdle
    /\ InitTagIdle
    /\ InitSearchIdle
    /\ InitServed
    /\ InitLaterIdle

AuthReportError(statusCode) ==
    /\ reportError(statusCode)
    /\ reported' = statusCode
    /\ UNCHANGED <<credentials, cachedSessionId, sinceLogin, au, challenged>>

AuthTick ==
    /\ AuthAdvance(AuthTickMs)
    /\ SessAdvance(AuthTickMs)
    /\ UNCHANGED sessTicks

NextAuth ==
    \/ \E c \in Procs : getSessionId(c) /\ UNCHANGED <<notAuth, sessVars>>
    \/ \E c \in Procs : refreshSession(c) /\ UNCHANGED <<notAuth, sessVars>>
    \/ \E c \in Procs : LoginCall(c) /\ UNCHANGED <<notAuth, sessVars>>
    \/ \E c \in Procs : LoginFinish(c) /\ UNCHANGED <<notAuth, sessVars>>
    \/ \E c \in Procs : AuthReturn(c) /\ UNCHANGED <<notAuth, sessVars>>
    \/ invalidateSession /\ UNCHANGED <<notAuth, sessVars>>
    \/ \E code \in StatusCodes : AuthReportError(code) /\ UNCHANGED notAuth
    \/ AuthTick /\ UNCHANGED notAuth

SpecAuth == InitAuth /\ [][NextAuth]_vars

\* --------------------------------------------- specification SpecLoad:
\* the session file is saved, replaced, aged and loaded in any order
InitLoad ==
    /\ InitLoadIdle
    /\ InitTagIdle
    /\ InitSearchIdle
    /\ InitServed
    /\ InitLaterIdle
    /\ InitAuthIdle
    /\ InitRLIdle
    /\ InitProxyNone
    /\ InitSessIdle
    /\ InitJobsIdle

NextLoad ==
    \/ \E addCookiesThrows \in BOOLEAN : loadSession(addCookiesThrows) /\ UNCHANGED notLoad
    \/ \E writeThrows \in BOOLEAN : saveSession(writeThrows) /\ UNCHANGED notLoad
    \/ FilePlaced /\ UNCHANGED notLoad
    \/ NewContext /\ UNCHANGED notLoad
    \/ LoadAdvance(DayMs) /\ UNCHANGED notLoad

SpecLoad == InitLoad /\ [][NextLoad]_vars

\* ---------------------------------------------- specification SpecTag:
\* one ScraperService.scrapeHashtag call, with what Instagram serves chosen
\* freely at every request
InitTag ==
    /\ InitTagIdle
    /\ InitSearchIdle
    /\ InitServed
    /\ InitLaterIdle
    /\ InitLoadIdle
    /\ InitAuthIdle
    /\ InitRLIdle
    /\ InitProxyNone
    /\ InitSessIdle
    /\ InitJobsIdle

\* time passes while waitBeforeRequest sleeps
TagTick ==
    /\ sw[TagCaller].pc # "idle"
    /\ SessTick \/ SessLongTick
    /\ UNCHANGED <<tagVars, consecutiveWarnings, sinceWarning, activeContexts>>

NextTag ==
    \/ TagStart /\ UNCHANGED notTag
    \/ TagPrelude /\ UNCHANGED notTag
    \/ HsEnter /\ UNCHANGED notTag
    \/ S1Initial /\ UNCHANGED notTag
    \/ S1Page /\ UNCHANGED notTag
    \/ S1WaitCall /\ UNCHANGED notTag
    \/ S1WaitStep /\ UNCHANGED notTag
    \/ S1Waited /\ UNCHANGED notTag
    \/ S1Scroll /\ UNCHANGED notTag
    \/ S2Initial /\ UNCHANGED notTag
    \/ S2Scroll /\ UNCHANGED notTag
    \/ SingleRequest(3) /\ UNCHANGED notTag
    \/ SingleRequest(4) /\ UNCHANGED notTag
    \/ TagCompleted /\ UNCHANGED notTag
    \/ TagClose /\ UNCHANGED notTag
    \/ TagTick /\ UNCHANGED notTag

SpecTag == InitTag /\ [][NextTag]_vars

\* --------------------------------------------- specification LiveS1:
\* a hashtag scrape up to the end of strategy 1; every await settles and
\* timers fire: a step that can be taken is taken
NextS1 ==
    \/ TagStart /\ UNCHANGED notTag
    \/ TagPrelude /\ UNCHANGED notTag
    \/ HsEnter /\ UNCHANGED notTag
    \/ S1Initial /\ UNCHANGED notTag
    \/ S1Page /\ UNCHANGED notTag
    \/ S1WaitCall /\ UNCHANGED notTag
    \/ S1WaitStep /\ UNCHANGED notTag
    \/ S1Waited /\ UNCHANGED notTag
    \/ S1Scroll /\ UNCHANGED notTag
    \/ TagTick /\ UNCHANGED notTag

LiveS1 == InitTag /\ [][NextS1]_vars /\ WF_vars(NextS1)

\* ------------------------------------------- specification SpecReject:
\* a hashtag scrape of any hashtag up to the first page load of strategy 1
NextReject ==
    \/ TagStartAny /\ UNCHANGED notTag
    \/ TagPrelude /\ UNCHANGED notTag
    \/ HsEnter /\ UNCHANGED notTag
    \/ S1Initial /\ UNCHANGED notTag
    \/ TagClose /\ UNCHANGED notTag

SpecReject == InitTag /\ [][NextReject]_vars

\* ------------------------------------------- specification SpecSearch:
\* one searchPostsByCaption call, every sub-strategy free to throw or to
\* return any posts
InitSearch ==
    /\ InitSearchIdle
    /\ InitServed
    /\ InitLaterIdle
    /\ InitTagIdle
    /\ InitLoadIdle
    /\ InitAuthIdle
    /\ InitRLIdle
    /\ InitProxyNone
    /\ InitSessIdle
    /\ InitJobsIdle

NextSearch ==
    \/ SearchStart /\ UNCHANGED notSearch
    \/ SearchPrelude /\ UNCHANGED notSearch
    \/ SearchTerm /\ UNCHANGED notSearch
    \/ SearchExplore /\ UNCHANGED notSearch
    \/ SearchReels /\ UNCHANGED notSearch
    \/ SearchFinish /\ UNCHANGED notSearch
    \/ SearchClose /\ UNCHANGED notSearch

SpecSearch == InitSearch /\ [][NextSearch]_vars

\* the older components at rest
InitQuiet ==
    /\ InitAuthIdle
    /\ InitLoadIdle
    /\ InitTagIdle
    /\ InitSearchIdle
    /\ InitServed
    /\ InitRLIdle
    /\ InitProxyNone
    /\ InitSessIdle
    /\ InitJobsIdle

\* ------------------------------------------ specification SpecProfile:
\* one scrapeProfile call, the page free to show any profile and any posts
InitProfile ==
    /\ InitQuiet
    /\ InitLaterIdle

NextProfile ==
    \/ ProfileStart /\ UNCHANGED notProfile
    \/ ProfilePrelude /\ UNCHANGED notProfile
    \/ ProfileScraped /\ UNCHANGED notProfile
    \/ ProfilePosts /\ UNCHANGED notProfile
    \/ ProfileFinish /\ UNCHANGED notProfile
    \/ ProfileClose /\ UNCHANGED notProfile

SpecProfile == InitProfile /\ [][NextProfile]_vars

\* --------------------------------------------- specification SpecData:
\* DataService's job methods called in any order
InitData ==
    /\ InitQuiet
    /\ InitLaterIdle

NextData ==
    \/ DataCreate /\ UNCHANGED notData
    \/ DataUpdate /\ UNCHANGED notData
    \/ DataGet /\ UNCHANGED notData

SpecData == InitData /\ [][NextData]_vars

\* -------------------------------------------- specification SpecParse:
\* each parseCount applied to every count string of up to MaxChars characters
\* and to the examples
InitParse ==
    /\ InitQuiet
    /\ InitProfileIdle
    /\ InitDataIdle
    /\ InitDirectIdle
    /\ InitExtractIdle
    /\ InitPacedIdle
    /\ \E countStr \in CountStrings : parsed = [NoParse EXCEPT !.input = countStr]

NextParse ==
    \/ ParseProfile /\ UNCHANGED notParse
    \/ ParseReel /\ UNCHANGED notParse

SpecParse == InitParse /\ [][NextParse]_vars

\* ------------------------------------------- specification SpecDirect:
\* one scrapeDirectUrls call on any urls
InitDirect ==
    /\ InitQuiet
    /\ InitLaterIdle

NextDirect ==
    \/ DirectStart /\ UNCHANGED notDirect
    \/ DirectPrelude /\ UNCHANGED notDirect
    \/ DirectToken /\ UNCHANGED notDirect
    \/ DirectPost /\ UNCHANGED notDirect
    \/ DirectProfile /\ UNCHANGED notDirect
    \/ DirectHashtag /\ UNCHANGED notDirect
    \/ DirectUnknown /\ UNCHANGED notDirect
    \/ DirectFinish /\ UNCHANGED notDirect
    \/ DirectClose /\ UNCHANGED notDirect

SpecDirect == InitDirect /\ [][NextDirect]_vars

\* -------------------------------------------- specification SpecDelay:
\* one calculateDelay call for any counters and any random draws
InitDelay ==
    /\ InitQuiet
    /\ InitProfileIdle
    /\ InitParseIdle
    /\ InitDataIdle
    /\ InitDirectIdle
    /\ InitExtractIdle
    /\ paced \in PacedInputs

NextDelay == CalculateDelay /\ UNCHANGED notPaced

SpecDelay == InitDelay /\ [][NextDelay]_vars

\* ------------------------------------------ specification SpecExtract:
\* one of the three list-returning extractions, called on any page
InitExtract ==
    /\ InitQuiet
    /\ InitLaterIdle

NextExtract ==
    \/ CommentsCall /\ UNCHANGED notExtract
    \/ CommentsExtract /\ UNCHANGED notExtract
    \/ ReelsCall /\ UNCHANGED notExtract
    \/ ReelsPass /\ UNCHANGED notExtract
    \/ PostsCall /\ UNCHANGED notExtract

SpecExtract == InitExtract /\ [][NextExtract]_vars

\* ------------------------------------------------------------- claims, Spec

\* a step changes job j's status only from none to processing (createJob) or
\* from processing to a terminal status
StatusStep(j) ==
    jobs'[j].status # jobs[j].status =>
        \/ jobs[j].status = "none" /\ jobs'[j].status = "processing"
        \/ jobs[j].status = "processing" /\ jobs'[j].status \in Terminal

\* the operation is past its try/catch: in cleanup, returned, or rejected
PastCatch(j) == jobs[j].pc \in {"closing", "returned", "rejected"}

StatusFollowsOperation ==
    \A j \in Procs :
        /\ jobs[j].pc = "idle" <=> jobs[j].status = "none"
        /\ PastCatch(j) <=> jobs[j].status \in Terminal

\* C1: a job of any of the seven operations is created processing, its status
\* changes exactly once, to completed or failed, and no later step of the
\* operation, the cleanup included, changes it again.
C1_StatusChangesOnce == []StatusFollowsOperation /\ [][\A j \in Procs : StatusStep(j)]_vars

\* one job failed and its cleanup failed too, another completed and returned
C1_Witness ==
    \E j, k \in Procs :
        /\ jobs[j].status = "failed" /\ jobs[j].pc = "rejected"
        /\ jobs[k].status = "completed" /\ jobs[k].pc = "returned"
        /\ jobs[k].type = "direct_urls"

NoJobRunning == \A j \in Procs : jobs[j].pc \in {"idle", "returned", "rejected"}

\* C2: when an operation returns, closeContext was called for its context id
\* and the id is gone from activeContexts; with no job running the map is empty.
C2_CleanupGuaranteed ==
    /\ \A j \in Procs : jobs[j].pc = "returned" =>
          calls[j].closeContext >= 1 /\ j \notin activeContexts
    /\ NoJobRunning => activeContexts = {}

FeedbackMatchesStatus ==
    \A j \in Procs :
        /\ jobs[j].status = "completed" =>
              /\ calls[j].reportSuccess = 1
              /\ calls[j].reportWarning = 0
              /\ calls[j].markProxySuccess = (IF jobs[j].proxy # 0 THEN 1 ELSE 0)
        /\ jobs[j].status = "failed" =>
              /\ calls[j].reportWarning = 1
              /\ calls[j].reportSuccess = 0
              /\ calls[j].thrown # "none"
              /\ jobs[j].error = calls[j].thrown
        /\ jobs[j].status = "processing" =>
              calls[j].reportSuccess = 0 /\ calls[j].reportWarning = 0

\* the step that ends job j reaches the services it reports to
FeedbackArrives(j) ==
    /\ (jobs[j].status = "processing" /\ jobs'[j].status = "failed") =>
          consecutiveWarnings' = consecutiveWarnings + 1 /\ sinceWarning' = 0
    /\ (jobs[j].status = "processing" /\ jobs'[j].status = "completed") =>
          /\ consecutiveWarnings' <= consecutiveWarnings
          /\ jobs[j].proxy # 0 =>
                /\ lastProxyOp'.op = "markProxySuccess"
                /\ proxies'[lastProxyOp'.idx].key = jobs[j].proxy
                /\ proxies'[lastProxyOp'.idx].failCount = 0

\* C8: a completed job has had reportSuccess called exactly once (and
\* markProxySuccess on its proxy if it had one), a failed job has had
\* reportWarning called exactly once and carries the thrown error's message;
\* no job has both reports.
C8_FeedbackOncePerJob ==
    []FeedbackMatchesStatus /\ [][\A j \in Procs : FeedbackArrives(j)]_vars

\* one job completed with a proxy, another failed in a strategy call
C8_Witness ==
    \E j, k \in Procs :
        /\ jobs[j].status = "completed" /\ jobs[j].proxy # 0
        /\ calls[j].markProxySuccess = 1
        /\ jobs[k].status = "failed" /\ jobs[k].error = "strategy failed"
        /\ jobs[k].pc = "returned"

\* C9: when a job that was given a proxy has ended failed, markProxyFailed
\* has been called for that proxy.
C9_FailedJobReportsProxy ==
    \A j \in Procs :
        (jobs[j].status = "failed" /\ jobs[j].proxy # 0 /\ jobs[j].pc \in {"returned", "rejected"})
            => failureReported[jobs[j].proxy]

\* ---------------------------------------------------------- claims, SpecSess

\* caller c passes the cooldown gate of waitBeforeRequest in this step
PassesGate(c) ==
    /\ sw[c].pc \in {"idle", "cooling"}
    /\ sw'[c].pc \in {"minuteWait", "hourWait", "pacing"}

\* C5: after reportError(429) at time t no waitBeforeRequest call gets past
\* the cooldown before t + 5 minutes, whether the caller was already sleeping
\* on an earlier cooldown or arrives later, whatever other reports come in.
C5_NoAdmissionDuring429Cooldown ==
    [][\A c \in Procs : PassesGate(c) => since429 >= RateLimitCooldownMs]_vars

\* C25: with several callers of waitBeforeRequest on the one limiter, the
\* requests recorded within the last 60 seconds never number more than
\* requestsPerMinute, and those within the last hour never more than
\* requestsPerHour
C25_GlobalRequestBudget ==
    /\ Len(Younger(requestTimestamps, MinuteMs)) <= requestsPerMinute
    /\ Len(Younger(requestTimestamps, HourMs)) <= requestsPerHour

\* C27: an active cooldown is never shortened: while the limiter is in
\* cooldown and cooldownUntil lies ahead, a reportError call (and the
\* triggerCooldown it makes) does not move cooldownUntil to an earlier time
C27_CooldownNeverShortened ==
    [][(/\ isInCooldown
        /\ cooldownLeft > 0
        /\ consecutiveErrors' = consecutiveErrors + 1)
       => cooldownLeft' >= cooldownLeft]_vars

\* ---------------------------------------------------------- claims, SpecProxy

Entries == 1..Len(proxies)

FailCountImpliesInactive ==
    \A i \in Entries : proxies[i].failCount >= MaxFailures => ~proxies[i].isActive

OnlyResetReactivates ==
    \A i \in Entries :
        (~proxies[i].isActive /\ proxies'[i].isActive) =>
            /\ lastProxyOp'.op = "resetProxy"
            /\ lastProxyOp'.idx = i
            /\ proxies'[i].failCount = 0

\* C7: after any sequence of getNextProxy, markProxyFailed, markProxySuccess,
\* resetProxy and addProxy every endpoint with failCount >= 3 is inactive;
\* only resetProxy turns an inactive endpoint active again, and it sets
\* failCount to 0 in the same step.
C7_FailCountInvariant == []FailCountImpliesInactive /\ [][OnlyResetReactivates]_vars

\* C7 witness: resetProxy has just reactivated a deactivated endpoint while
\* another endpoint stays deactivated with failCount >= 3.
C7_Witness ==
    /\ lastProxyOp.op = "resetProxy"
    /\ lastProxyOp.idx # 0
    /\ ~lastProxyOp.wasActive
    /\ proxies[lastProxyOp.idx].isActive
    /\ \E j \in Entries : proxies[j].failCount >= MaxFailures /\ ~proxies[j].isActive

\* the active endpoints, and the 0-based position of one in their list
ActiveSet == {i \in Entries : proxies[i].isActive}

Pos(i) == Cardinality({j \in ActiveSet : j < i})

\* active and below its request budget
Available(i) == i \in ActiveSet /\ requestCounts[proxies[i].key] < requestsPerProxy

\* how far entry i is from the rotation index, going round the active list
Off(i) == CHOOSE d \in 0..(Cardinality(ActiveSet) - 1) :
             (currentIndex + d) % Cardinality(ActiveSet) = Pos(i)

GetNextReturns ==
    LET r == lastProxyOp'.idx
        n == Cardinality(ActiveSet)
    IN lastProxyOp'.op = "getNextProxy" =>
          IF ActiveSet = {}
          THEN r = 0 /\ UNCHANGED <<requestCounts, currentIndex>>
          ELSE /\ r \in ActiveSet
               /\ IF \E i \in ActiveSet : Available(i)
                  THEN /\ Available(r)
                       /\ \A i \in ActiveSet : Available(i) => Off(r) <= Off(i)
                       /\ requestCounts' = [requestCounts EXCEPT ![proxies[r].key] = @ + 1]
                       /\ currentIndex' = (Pos(r) + 1) % n
                  ELSE /\ Pos(r) = 0
                       /\ requestCounts' =
                             [k \in Keys |-> IF k = proxies[r].key THEN 1 ELSE 0]
                       /\ currentIndex' = 1 % n

CountsWithinBudget == \A k \in Keys : requestCounts[k] <= requestsPerProxy

C30_ConsecutiveCallsDiffer ==
    [][(/\ lastProxyOp'.op = "getNextProxy"
        /\ lastProxyOp'.idx # 0
        /\ served.idx # 0
        /\ served.choice
        /\ Cardinality(Budgeted) >= 2)
       => lastProxyOp'.idx # served.idx]_vars

\* ------------------------------------------------------------- claims, SpecRL

TokensInRange ==
    /\ minuteBucket.tokens \in 0..requestsPerMinute
    /\ hourBucket.tokens \in 0..requestsPerHour

Admitted(c) == rl[c].pc = "check" /\ rl'[c].pc = "pacing"

AdmissionTakesOneOfEach ==
    /\ \A c \in Procs : Admitted(c) =>
          /\ minuteBucket.tokens >= 1
          /\ hourBucket.tokens >= 1
          /\ minuteBucket'.tokens = minuteBucket.tokens - 1
          /\ hourBucket'.tokens = hourBucket.tokens - 1
    /\ (minuteBucket'.tokens < minuteBucket.tokens \/ hourBucket'.tokens < hourBucket.tokens)
          => \E c \in Procs : Admitted(c)

\* C4: under any interleaving of concurrent acquireToken callers an admission
\* happens only when both buckets hold at least one token and removes exactly
\* one token from each (and nothing else removes tokens); neither bucket's
\* token count is ever negative or above its capacity.
C4_AdmissionNeedsBothTokens == []TokensInRange /\ [][AdmissionTakesOneOfEach]_vars

\* C4 witness: one caller has been admitted and took the last minute token
\* while another caller, blocked by the empty bucket, sleeps in the loop.
C4_Witness ==
    \E c, d \in Procs :
        /\ rl[c].pc = "pacing"
        /\ rl[d].pc = "waiting"
        /\ minuteBucket.tokens = 0

\* C10: with requestsPerMinute = N, once N admissions have followed the moment
\* the minute bucket was full (the window start), a further admission happens
\* only when at least 60000 / N ms have passed since that window start.
C10_Saturation ==
    admitsSinceFull > requestsPerMinute => sinceFull * requestsPerMinute >= MinuteMs

\* C10 witness: the (N+1)-th admission since the window start has happened,
\* through a partial refill (the bucket was not filled to capacity again).
C10_Witness ==
    /\ admitsSinceFull = requestsPerMinute + 1
    /\ sinceFull < MinuteMs
    /\ \E c \in Procs : rl[c].pc = "pacing"

\* --------------------------------------------- specification LiveRL:
\* SpecRL with the event loop's scheduling: a pending timer fires as time
\* passes and a caller's ready continuation runs; whether and when a caller
\* calls acquireToken again is up to the caller
RLCallerStep(c) ==
    /\ AcquireBlocked(c) \/ AcquireWake(c) \/ AcquireAdmit(c) \/ AcquireReturn(c)
    /\ UNCHANGED notRL

RLTimePasses == (RLTick \/ RLLongTick) /\ UNCHANGED notRL

LiveRL ==
    /\ InitRL
    /\ [][NextRL]_vars
    /\ WF_vars(RLTimePasses)
    /\ \A c \in Procs : WF_vars(RLCallerStep(c))

\* ------------------------------------------------------------- claims, LiveRL

\* C11: acquireToken never rejects and every call eventually resolves as
\* time advances, also when it was made while a bucket is empty or while
\* other callers are waiting (a call in flight returns to its caller).
C11_EveryCallResolves ==
    \A c \in Procs : (rl[c].pc # "idle") ~> (rl[c].pc = "idle")

\* ----------------------------------------------------------- claims, SpecAuth

\* a step in which reportError(401) or reportError(403) is called
AuthErrorReported == reported' \in {401, 403} /\ consecutiveErrors' = consecutiveErrors + 1

\* C12: reportError(401) or reportError(403) starts a 1-minute cooldown and
\* also has the session-id manager invalidate the current session: after
\* the report the cached session id is cleared.
C12_AuthErrorInvalidatesSession ==
    [][AuthErrorReported =>
          /\ isInCooldown'
          /\ cooldownLeft' = AuthCooldownMs
          /\ cachedSessionId' = NoSession]_vars

AttemptStarts(c) == au[c].pc = "idle" /\ au'[c].pc = "attempt"

\* an attempt starts only when no attempt was made before or the last one
\* started at least loginCooldownMs ago; no two start in the same step
AttemptsSpaced ==
    \A c \in Procs : AttemptStarts(c) =>
        /\ sinceLogin = NeverAttempted \/ sinceLogin >= loginCooldownMs
        /\ sinceLogin' = 0
        /\ \A d \in Procs \ {c} : ~AttemptStarts(d)

CooldownCall(c) ==
    au[c].pc = "idle" /\ au'[c].pc = "resolved" /\ au'[c].how = "cooldown"

\* a login() call during the cooldown resolves to this.cachedSessionId and
\* changes nothing (refreshSession has cleared the cache before it calls login)
CooldownAnswersFromCache ==
    \A c \in Procs : CooldownCall(c) =>
        /\ sinceLogin # NeverAttempted /\ sinceLogin < loginCooldownMs
        /\ au'[c].ret = cachedSessionId'
        /\ sinceLogin' = sinceLogin
        /\ cachedSessionId' = IF au'[c].op = "refreshSession" THEN NoSession
                                                              ELSE cachedSessionId

\* C14: two actual login attempts (those that open a browser context) never
\* start less than 60 s apart under any interleaving of callers; a login()
\* call made during the cooldown returns the cached session id, opens no
\* context and changes neither cachedSessionId nor lastLoginAttempt.
C14_LoginCooldown == [][AttemptsSpaced /\ CooldownAnswersFromCache]_vars

\* C14 witness: while one caller's login attempt is under way, another
\* caller's getSessionId ran into the cooldown 30 s after the attempt began.
C14_Witness ==
    \E c, d \in Procs :
        /\ au[c].pc = "attempt"
        /\ au[d].pc = "resolved" /\ au[d].how = "cooldown" /\ au[d].op = "getSessionId"
        /\ sinceLogin = AuthTickMs

ChallengeFails ==
    \A c \in Procs :
        (au[c].pc = "attempt" /\ au'[c].pc = "resolved" /\ au'[c].how = "challenge")
            => au'[c].ret = NoSession

\* C15: a login attempt that lands on a 2FA/challenge URL fails with no
\* session, and the failure is terminal: afterwards the session-id manager
\* starts no further login attempt for later requests.
C15_ChallengeIsTerminal ==
    [][ChallengeFails /\ (challenged => \A c \in Procs : ~AttemptStarts(c))]_vars

\* ----------------------------------------------------------- claims, SpecLoad

\* the file exists, holds a non-empty cookie list and a savedAt that is at
\* most 7 days in the past
FreshSession(file) ==
    /\ file.exists /\ file.readable
    /\ file.cookies > 0
    /\ file.dated /\ file.age <= SessionMaxAgeDays * DayMs

\* C13: loadSession injects the saved cookies and returns true only if the
\* session file exists, has a non-empty cookie list and its savedAt is at
\* most 7 days in the past; in every other case (older than 7 days, missing,
\* empty or unreadable) it returns false and injects nothing.
C13_LoadOnlyFreshSessions ==
    [][lastLoadOp' = "loadSession" =>
          /\ loaded' = "true" => FreshSession(sessionFile)
          /\ loaded' # "true" => contextCookies' = contextCookies
          /\ ~FreshSession(sessionFile) =>
                loaded' = "false" /\ contextCookies' = contextCookies]_vars

\* ------------------------------------------------------------ claims, SpecTag
Distinct(seq) == \A i, j \in 1..Len(seq) : i # j => seq[i] # seq[j]

Acceptable(k, posts, limit) ==
    IF k = 1 THEN 10 * Len(posts) >= 7 * limit ELSE Len(posts) > 0

HsDone == hs.pc \in {"resolved", "returned"}

\* C17: the strategies are invoked in the order 1, 2, 3, 4, each only after
\* every earlier one returned an output that is not accepted (strategy 1: at
\* least 70% of limit, strategies 2-4: more than 0 posts); the result is the
\* output of the first accepted strategy, and no later one is invoked; when
\* strategy 1 yields 0 posts and strategy 2 yields K > 0, the result is
\* strategy 2's output and strategies 3 and 4 are never invoked
C17_FirstAcceptedStrategy ==
    LET n == Len(hs.invoked)
        m == Len(hs.outputs)
    IN /\ n <= 4
       /\ \A i \in 1..n : hs.invoked[i] = i
       /\ m = (IF HsDone THEN n ELSE IF n = 0 THEN 0 ELSE n - 1)
       /\ \A i \in 1..m : i < n => ~Acceptable(i, hs.outputs[i], hs.limit)
       /\ HsDone =>
             /\ n >= 1
             /\ IF Acceptable(n, hs.outputs[n], hs.limit)
                THEN hs.result = hs.outputs[n]
                ELSE n = 4 /\ hs.result = <<>>
       /\ (m >= 2 /\ hs.outputs[1] = <<>> /\ hs.outputs[2] # <<>>) =>
             /\ hs.invoked = <<1, 2>>
             /\ hs.result = hs.outputs[2]

\* strategy 1 yielded nothing, strategy 2 yielded two posts
C17_Witness ==
    /\ HsDone
    /\ hs.invoked = <<1, 2>>
    /\ hs.outputs[1] = <<>>
    /\ Len(hs.outputs[2]) = 2
    /\ hs.result = hs.outputs[2]

\* C18: no extraction- or network-level error leaves the hashtag engine: only
\* the rejection of an invalid hashtag, before any strategy ran, is thrown,
\* so a job whose strategies ran never fails; an error inside a strategy,
\* strategy 1's scroll fallback included, gives zero or partial results; when
\* all four strategies are exhausted the result is empty and the job
\* completes
C18_NoExtractionErrorEscapes ==
    /\ hs.pc = "thrown" => hs.invoked = <<>>
    /\ (tagJob.status = "failed" /\ hs.pc # "idle") => hs.invoked = <<>>
    /\ (HsDone /\ Len(hs.invoked) = 4 /\ ~Acceptable(4, hs.outputs[4], hs.limit)) =>
          /\ hs.result = <<>>
          /\ tagJob.status \in {"processing", "completed"}

\* C26: scrapeHashtag returns an empty post list only if every strategy
\* called returned no posts: what strategy 1 collected below its 70%
\* threshold is returned when strategies 2-4 return nothing
C26_EmptyOnlyIfNothingCollected ==
    (HsDone /\ hs.result = <<>>) => \A i \in 1..Len(hs.outputs) : hs.outputs[i] = <<>>

S1Pcs == {"s1.initial", "s1.page", "s1.wait", "s1.waiting", "s1.scroll"}

\* the bounds of strategy 1's loops
S1Bounded ==
    /\ hs.pageCount <= CeilDiv(hs.limit, 50) + 3
    /\ hs.pc = "s1.page" =>
          /\ Len(hs.posts) < hs.limit
          /\ hs.hasNextPage
          /\ hs.pageCount < CeilDiv(hs.limit, 50) + 3
          /\ hs.pageCount > 0 => hs.endCursor
    /\ hs.pc \in {"s1.wait", "s1.waiting"} => hs.pageCount >= 1
    /\ hs.pc = "s1.scroll" =>
          /\ Len(hs.posts) < hs.limit
          /\ hs.noNewPostsCount < 5
          /\ hs.scrollCount < CeilDiv(hs.limit, 5) + 10

\* how far strategy 1 has come: rounds of the pagination loop, then scrolls
S1Measure(h) ==
    CASE h.pc = "s1.initial" -> 0
      [] h.pc = "s1.page" -> 3 * h.pageCount + 1
      [] h.pc = "s1.wait" -> 3 * h.pageCount - 1
      [] h.pc = "s1.waiting" -> 3 * h.pageCount
      [] h.pc = "s1.scroll" -> 3 * (CeilDiv(h.limit, 50) + 3) + 2 + h.scrollCount

\* every step of strategy 1 that does not end it is a further round or a
\* further scroll; a scroll that adds no shortcode counts towards the 5
S1Advances ==
    (hs.pc \in S1Pcs /\ hs'.pc \in S1Pcs /\ hs' # hs) =>
        /\ S1Measure(hs') > S1Measure(hs)
        /\ (hs.pc = "s1.scroll" /\ Len(hs'.posts) = Len(hs.posts)) =>
              hs'.noNewPostsCount = hs.noNewPostsCount + 1

C19_AtMostLimitDistinct ==
    /\ Len(search.matchingPosts) <= search.resultLimit
    /\ Distinct(search.matchingPosts)
    /\ \A i \in 1..Len(search.surfaced) : \A sc \in search.surfaced[i] :
          Cardinality({k \in 1..Len(search.matchingPosts) : search.matchingPosts[k] = sc}) <= 1

\* the hashtag expansion and the explore search both surfaced a shortcode that
\* is in the returned result
C19_Witness ==
    /\ search.pc = "returned"
    /\ search.status = "completed"
    /\ \E i, j \in 1..Len(search.ran) :
          /\ search.ran[i] = "hashtag"
          /\ search.ran[j] = "explore"
          /\ \E sc \in search.surfaced[i] \cap search.surfaced[j] :
                \E k \in 1..Len(search.matchingPosts) : search.matchingPosts[k] = sc

\* the sub-strategies of a search with n terms, in order
SubStrategies(n) == [i \in 1..(n + 2) |->
                        IF i <= n THEN "hashtag" ELSE IF i = n + 1 THEN "explore" ELSE "reels"]

SearchOver == search.pc \in {"closing", "returned", "rejected"}

\* C20: an exception of a sub-strategy is caught: the job never fails once
\* the sub-strategies are reached, and the remaining ones still run; the
\* order is every hashtag term, explore, reels; each runs only while fewer
\* than resultLimit posts are collected, and a search that ends below
\* resultLimit has run them all
C20_SubStrategyFailuresContained ==
    LET n == Len(search.ran)
        all == SubStrategies(search.terms)
    IN /\ n <= search.terms + 2
       /\ \A i \in 1..n : \A j \in 1..n : i < j =>
             \E a, b \in 1..Len(all) :
                a < b /\ all[a] = search.ran[i] /\ all[b] = search.ran[j]
       /\ \A i \in 1..n : search.before[i] < search.resultLimit
       /\ n >= 1 => search.status # "failed"
       /\ (SearchOver /\ search.status = "failed") => n = 0
       /\ (SearchOver /\ search.status # "failed") =>
             /\ search.status = "completed"
             /\ Len(search.matchingPosts) < search.resultLimit => search.ran = all
             /\ \A i \in 1..n : search.ran[i] = all[i]

\* every sub-strategy threw and the job completed with no posts
C20_Witness ==
    /\ search.pc = "returned"
    /\ search.status = "completed"
    /\ search.terms = 2
    /\ search.ran = <<"hashtag", "hashtag", "explore", "reels">>
    /\ \A i \in 1..4 : search.threw[i]
    /\ search.matchingPosts = <<>>

\* ------------------------------------------------------ claims, SpecProfile

\* the records scrapeProfile returns: the profile if one was obtained, and
\* the posts
RecordsReturned ==
    (IF profileJob.profile \in {"public", "private"} THEN 1 ELSE 0)
        + Len(profileJob.posts)

\* C21: when scrapeProfile completes, job.scrapedItems is the number of
\* records returned (the profile if one was obtained, plus posts.length) and
\* posts.length <= postsLimit; one profile and 3 posts with postsLimit = 3
\* give scrapedItems = 4
C21_ScrapedItemsCountsRecords ==
    profileJob.status = "completed" =>
        /\ profileJob.scrapedItems = RecordsReturned
        /\ Len(profileJob.posts) <= profileJob.postsLimit
        /\ (profileJob.profile = "public" /\ Len(profileJob.posts) = 3
              /\ profileJob.postsLimit = 3 => profileJob.scrapedItems = 4)

\* the parts of C21 that hold: the posts are at most postsLimit, and with a
\* profile obtained scrapedItems counts the records
C21_PostsWithinLimit ==
    profileJob.status = "completed" =>
        /\ Len(profileJob.posts) <= profileJob.postsLimit
        /\ (profileJob.profile # "null" => profileJob.scrapedItems = RecordsReturned)

C21_Example ==
    /\ profileJob.status = "completed"
    /\ profileJob.profile = "public"
    /\ profileJob.postsLimit = 3
    /\ Len(profileJob.posts) = 3
    /\ profileJob.scrapedItems = 4

\* --------------------------------------------------------- claims, SpecData

\* C28: updateJob leaves a job whose status is completed or failed unchanged:
\* its status, counters, error and timestamps are as before the call
C28_TerminalJobUnchanged ==
    [][\A id \in JobIds :
          (store'.op = "updateJob" /\ store'.id = id
              /\ store.jobs[id].status \in {"completed", "failed"})
          => store'.jobs[id] = store.jobs[id]]_vars

\* what updateJob does guarantee: an unknown id stores nothing and returns
\* null, the other jobs are untouched, the fields not in updates are kept
C28_UpdateFrame ==
    [][store'.op = "updateJob" =>
          /\ \A id \in JobIds : id # store'.id => store'.jobs[id] = store.jobs[id]
          /\ store.jobs[store'.id] = Undefined =>
                store'.jobs = store.jobs /\ store'.returned = Undefined
          /\ store'.returned = store'.jobs[store'.id]]_vars

\* -------------------------------------------------------- claims, SpecParse

\* a count as the interface writes it: commas, surrounding blanks and letter
\* case apart, digits with at most one dot among them and at least one digit,
\* then blanks and one of K, M, B, or nothing
WellFormed(countStr) ==
    LET clean == CleanStr(countStr)
        n == Run(clean, Digits \cup {"."})
        num == SubSeq(clean, 1, n)
        rest == Drop(clean, n)
        tail == Drop(rest, Run(rest, {" "}))
    IN  /\ \E i \in 1..n : num[i] \in Digits
        /\ Cardinality({i \in 1..n : num[i] = "."}) <= 1
        /\ tail = <<>> \/ (Len(tail) = 1 /\ tail[1] \in Suffixes)

\* what the parser is to return for the result r of the string parsed.input
ParsedAsSpecified(r) ==
    r # Unparsed =>
        /\ ~r.nan /\ r.scale = 0
        /\ parsed.input = <<"1", ".", "5", "K">> => r.value = 1500
        /\ parsed.input = <<"2", "M">> => r.value = 2000000
        /\ parsed.input = <<"1", "2", ",", "3", "4", "5">> => r.value = 12345
        /\ parsed.input = <<>> => r.value = 0
        /\ ~WellFormed(parsed.input) => r.value = 0

\* C23: the count parser returns 1500 for "1.5K", 2000000 for "2M", 12345 for
\* "12,345" and 0 for ""; it strips commas, multiplies by 1e3/1e6/1e9 for a
\* K/M/B suffix, and returns the integer 0 for every input it cannot parse
C23_ParseCount == ParsedAsSpecified(parsed.profile) /\ ParsedAsSpecified(parsed.reel)

\* the part of C23 that holds of both parsers: the four examples, and an
\* integer for every well-formed count
C23_Examples ==
    \A r \in {parsed.profile, parsed.reel} :
        r # Unparsed =>
            /\ parsed.input = <<"1", ".", "5", "K">> => r = Number(1500, 0)
            /\ parsed.input = <<"2", "M">> => r = Number(2000000, 0)
            /\ parsed.input = <<"1", "2", ",", "3", "4", "5">> => r = Number(12345, 0)
            /\ parsed.input = <<>> => r = Number(0, 0)
            /\ WellFormed(parsed.input) => ~r.nan /\ r.scale = 0

\* ProfileStrategy.parseCount returns 0 or NaN for what is not well formed,
\* a dot among the digits apart
C23_ProfileUnparsable ==
    (parsed.profile # Unparsed /\ ~WellFormed(parsed.input)) =>
        \/ parsed.profile = Number(0, 0)
        \/ parsed.profile.nan
        \/ Cardinality({i \in 1..Len(parsed.input) : parsed.input[i] = "."}) >= 2

\* ------------------------------------------------------- claims, SpecDirect

\* C22: every page navigation of the job is preceded by its own acquireToken,
\* granted after the job's previous navigation: no two navigations on one
\* admission, and none before the first
C22_OneNavigationPerAdmission ==
    /\ direct.onAdmission <= 1
    /\ direct.navigations <= direct.admissions

\* what does hold: acquireToken is called once per url, before its branch
\* runs, and no page is loaded before the first call
C22_OneAdmissionPerUrl ==
    /\ direct.admissions = direct.i + (IF direct.pc = "url" THEN 1 ELSE 0)
    /\ direct.admissions = 0 => direct.navigations = 0
    /\ direct.onAdmission <= 2

\* C31: every job whose status is completed has progress = 100, whatever the
\* options (includePosts false, a private profile)
C31_CompletedMeansFullProgress ==
    profileJob.status = "completed" => profileJob.progress = 100

\* what holds: a completed profile job whose posts were scraped has progress
\* 100, the others have the 10 set after the profile
C31_ProgressOfCompleted ==
    profileJob.status = "completed" =>
        profileJob.progress =
            IF profileJob.profile = "public" /\ profileJob.includePosts THEN 100 ELSE 10

\* C32: scrapeProfile returns the result of the first of the intercepted
\* payload and the page-embedded JSON whose follower count is > 0, otherwise
\* the meta-tag/DOM result; for a profile page that exists the meta-tag/DOM
\* strategy always yields a record, never null
C32_FirstWithFollowersElseMeta ==
    (profileJob.profile # "unset" /\ profileJob.seen.loaded) =>
        profileJob.seen.via = IF profileJob.seen.offered # "none"
                              THEN profileJob.seen.offered ELSE "meta"

\* what holds: a source with followers is returned in that order of
\* preference, and without one the result is the meta-tag/DOM record or null
C32_PreferenceOrder ==
    (profileJob.profile # "unset" /\ profileJob.seen.loaded) =>
        IF profileJob.seen.offered # "none"
        THEN profileJob.seen.via = profileJob.seen.offered
        ELSE profileJob.seen.via \in {"meta", "null"}

\* ------------------------------------------------------ claims, SpecExtract

\* the identifying keys of the list are pairwise distinct: author and text,
\* and the id, of comments; the shortcode of reels and posts
DistinctKeys(fn, list) ==
    \A i, j \in 1..Len(list) :
        i < j => IF fn = "comments"
                 THEN ~(list[i].ownerUsername = list[j].ownerUsername
                          /\ list[i].text = list[j].text)
                      /\ list[i].id # list[j].id
                 ELSE list[i] # list[j]

\* C33: every list-returning extraction returns at most limit records with
\* pairwise distinct identifying keys, also when the same items are seen again
\* on later scrolls or in both the intercepted payload and the DOM
C33_AtMostLimitDistinct ==
    /\ Len(extract.items) <= extract.limit
    /\ extract.pc = "returned" =>
          /\ Len(extract.returned) <= extract.limit
          /\ DistinctKeys(extract.fn, extract.returned)

\* comments were returned up to the limit from a page that showed one twice
C33_Witness ==
    /\ extract.pc = "returned"
    /\ extract.fn = "comments"
    /\ extract.repeated
    /\ Len(extract.returned) = 2
    /\ extract.limit = 2

\* the same for reels seen again after a scroll, and for posts
C33_WitnessReels ==
    /\ extract.pc = "returned"
    /\ extract.fn = "reels"
    /\ extract.repeated
    /\ extract.scrollAttempts >= 1
    /\ Len(extract.returned) = 2

C33_WitnessPosts ==
    /\ extract.pc = "returned"
    /\ extract.fn = "posts"
    /\ extract.repeated
    /\ Len(extract.returned) = 2

\* C34: scrapeDirectUrls returns exactly one result entry per input URL, in
\* input order; a failure while scraping one URL yields an error entry for
\* it and neither stops the remaining URLs nor fails the job
C34_OneResultPerUrl ==
    /\ direct.pc \in {"returned", "rejected"} /\ direct.status = "completed" =>
          /\ Len(direct.results) = Len(direct.urls)
          /\ \A k \in 1..Len(direct.results) : direct.results[k].url = k
    /\ direct.results # <<>> /\ direct.pc \in {"closing", "returned", "rejected"} =>
          direct.status = "completed" /\ direct.i = Len(direct.urls)

\* what holds: at most one entry per URL, in input order; a URL that failed
\* has an error entry, the loop goes on to the last URL and the job completes
C34_AtMostOneResultPerUrl ==
    /\ \A k \in 1..Len(direct.results) :
          /\ direct.results[k].url \in 1..direct.i
          /\ k > 1 => direct.results[k - 1].url < direct.results[k].url
    /\ direct.results # <<>> /\ direct.pc \in {"closing", "returned", "rejected"} =>
          direct.status = "completed" /\ direct.i = Len(direct.urls)
    /\ direct.status = "completed" => direct.scrapedItems = Len(direct.results)

\* ------------------------------------------------- claims, SpecSearch (auth)

\* C35: in searchPostsByCaption authentication is optional: any failure of
\* ensureLoggedIn, a navigation error while validating a saved session
\* included, leaves the search running unauthenticated and never makes the
\* job fail
C35_AuthFailureNeverFailsSearch ==
    search.auth \in {"not logged in", "threw"} => search.status # "failed"

\* what holds: a login that ensureLoggedIn reports as failed (false) leaves
\* the search running, and it ends completed
C35_FailedLoginSearchGoesOn ==
    search.auth = "not logged in" =>
        /\ search.status # "failed"
        /\ search.pc \in {"closing", "returned", "rejected"} => search.status = "completed"

\* ------------------------------------------------------- claims, SpecReject

\* not made of letters, digits and underscores only
NotAWord(str) == str = <<>> \/ \E i \in 1..Len(str) : str[i] \notin {"a", "1", "_"}

\* the job ended failed with the message of sanitizeHashtag
FailedAsInvalid ==
    tagJob.status = "failed" /\ tagJob.error = "Invalid hashtag format"

C37_ListenersDetached ==
    /\ direct.pc \in {"loop", "closing"} => direct.listeners = 0
    /\ ~direct.staleLoad

\* scrapeViaLiveInterception alone leaves the page as it found it: a job with
\* no profile URL never has a listener left between two URLs
C37_LiveInterceptionDetaches ==
    (\A k \in 1..Len(direct.urls) : direct.urls[k] # "profile")
        => direct.listeners = 0 /\ ~direct.staleLoad

\* ----------------------------------------------------------- claims, SpecRL

\* a step in which reportWarning was called
WarningReported == warningsReported' = warningsReported + 1

\* a step in which some acquireToken took its tokens and ran getAdaptiveDelay
DelayDrawn == \E c \in Procs : rl[c].pc = "check" /\ rl'[c].pc = "pacing"

\* C38: consecutiveWarnings is never negative; reportWarning raises it by
\* exactly one; getAdaptiveDelay's decay leaves it or lowers it by one, and
\* lowers it only when more than 5 minutes passed since the last reportWarning
C38_WarningCounter ==
    [][/\ consecutiveWarnings >= 0 /\ consecutiveWarnings' >= 0
       /\ WarningReported => consecutiveWarnings' = consecutiveWarnings + 1
       /\ DelayDrawn =>
             \/ consecutiveWarnings' = consecutiveWarnings
             \/ /\ consecutiveWarnings' = consecutiveWarnings - 1
                /\ sinceWarning > WarningDecayMs]_vars

\* a warning was reported, and the first acquireToken more than 5 minutes
\* later has drawn its delay against it and let the counter decay
C38_Witness ==
    /\ warningsReported = 1
    /\ consecutiveWarnings = 0
    /\ sinceWarning > WarningDecayMs
    /\ admitsSinceFull = 1
    /\ \E c \in Procs :
          rl[c].pc = "pacing" /\ rl[c].rem = AdaptiveDelay(maxDelayMs, 1)

\* ---------------------------------------------------------- claims, SpecDelay

\* base * 1.2 (count > 20) * 1.5 (count > 40) * 2^errors, rounded down
ScaledDelay(base, count, errors) ==
    LET over20 == IF count > 20 THEN 12 ELSE 10
        over40 == IF count > 40 THEN 15 ELSE 10
    IN  (base * over20 * over40 * Pow(2, errors)) \div 100

\* C39 as stated: the base delay is scaled by 1.2 once sessionRequestCount >
\* 20, additionally by 1.5 once it is > 40, and by 2^consecutiveErrors; with
\* consecutiveErrors > 0 the delay returned is at most 60 000 ms
C39_ScaledAndCapped ==
    paced.pc = "returned" =>
        /\ (paced.u = 0 /\ ScaledDelay(paced.base, paced.sessionRequestCount,
                                  paced.consecutiveErrors) <= MaxBackoffMs)
              => paced.delay = ScaledDelay(paced.base, paced.sessionRequestCount,
                                      paced.consecutiveErrors)
        /\ paced.consecutiveErrors > 0 => paced.delay <= MaxBackoffMs

\* the cap is set before the variance is added: with consecutiveErrors > 0
\* the delay returned stays under 60 000 ms plus 10%, and the scaling is as
\* stated wherever neither cap nor variance acts
C39_CappedBeforeVariance ==
    paced.pc = "returned" =>
        /\ (paced.u = 0 /\ ScaledDelay(paced.base, paced.sessionRequestCount,
                                  paced.consecutiveErrors) <= MaxBackoffMs)
              => paced.delay = ScaledDelay(paced.base, paced.sessionRequestCount,
                                      paced.consecutiveErrors)
        /\ paced.consecutiveErrors > 0 => paced.delay * 10 < MaxBackoffMs * 11
====
